---- MODULE Spec2Model ----
(***************************************************************************)
(* School canteen menu: resolution of the rotation week, the closures, the *)
(* governing menu and the day plan by SchoolCanteenMenuDataCoordinator.    *)
(*                                                                         *)
(* Representation.  An ISO date string "YYYY-MM-DD" of the persisted       *)
(* document is the triple <<y, m, d>>; a datetime.date is its proleptic    *)
(* Gregorian ordinal (date.toordinal()).  A Python dict with string keys   *)
(* is a function whose domain is the set of its keys; str(n) is            *)
(* ToString(n).  A dict that keeps insertion order and is iterated (the    *)
(* menus of the document) is the sequence of its items.                    *)
(***************************************************************************)
EXTENDS Integers, Sequences, FiniteSets, TLC

(***************************************************************************)
(* Bounds of the model.                                                    *)
(***************************************************************************)
\* number of Monday-to-Sunday weeks of the calendar window the dates are drawn from
WindowWeeks == 3
\* largest cycle length, start week and restart week of the configurations
MaxWeeks == 3

(***************************************************************************)
(* Python values.                                                          *)
(***************************************************************************)
\* None where an object or a dict is expected
None == [is_none |-> TRUE]
\* None where a str is expected
NoneStr == "<None>"
\* self._start_date = None (no date has ordinal 0)
NoDate == 0
\* the empty dict {}
EmptyDict == [k \in {} |-> NoneStr]

\* dict.get(key, default)
DictGet(d, key, default) == IF key \in DOMAIN d THEN d[key] ELSE default

\* {k: v for k, v in d.items() if k in keys}
Restrict(d, keys) == [k \in keys |-> d[k]]

\* truthiness of a dict-or-None value: None and {} are falsy
Truthy(d) == d # None /\ DOMAIN d # {}

(***************************************************************************)
(* datetime.date                                                           *)
(***************************************************************************)
IsLeap(y) == y % 4 = 0 /\ (y % 100 # 0 \/ y % 400 = 0)

DaysInMonth(y, m) ==
    IF m = 2 THEN (IF IsLeap(y) THEN 29 ELSE 28)
    ELSE IF m \in {4, 6, 9, 11} THEN 30 ELSE 31

DaysBeforeYear(y) ==
    (y - 1) * 365 + ((y - 1) \div 4) - ((y - 1) \div 100) + ((y - 1) \div 400)

RECURSIVE DaysBeforeMonth(_, _)
DaysBeforeMonth(y, m) ==
    IF m = 1 THEN 0 ELSE DaysBeforeMonth(y, m - 1) + DaysInMonth(y, m - 1)

\* date.fromisoformat raises ValueError exactly when this is false
IsValidIso(iso) ==
    /\ iso[1] \in 1..9999
    /\ iso[2] \in 1..12
    /\ iso[3] \in 1..DaysInMonth(iso[1], iso[2])

\* date.fromisoformat(iso), as the ordinal of the date
FromIsoFormat(iso) == DaysBeforeYear(iso[1]) + DaysBeforeMonth(iso[1], iso[2]) + iso[3]

\* date.weekday(): Monday = 0 .. Sunday = 6
Weekday(d) == (d + 6) % 7

\* WEEKDAY_TO_CSV
WEEKDAY_TO_CSV == [wd \in 0..6 |-> wd + 1]

\* WEEKDAY_NAMES
WEEKDAY_NAMES ==
    [n \in 1..7 |->
        CASE n = 1 -> "Monday" [] n = 2 -> "Tuesday" [] n = 3 -> "Wednesday"
          [] n = 4 -> "Thursday" [] n = 5 -> "Friday" [] n = 6 -> "Saturday"
          [] OTHER -> "Sunday"]

\* meal slots of a day record
MealTypes == {"main_course", "second_course", "side", "fruit"}

(***************************************************************************)
(* State.                                                                  *)
(***************************************************************************)
VARIABLES
    store,            \* the persisted configuration document (Store on disk)
    storage_data,     \* SchoolCanteenMenuStorage._data of the coordinator's storage
    start_date,       \* coordinator._start_date
    start_week,       \* coordinator._start_week
    menus,            \* coordinator._menus
    closure_periods,  \* coordinator._closure_periods
    restarts,         \* coordinator._restarts
    data,             \* coordinator.data, the CoordinatorData of the last refresh
    csv_content,      \* the csv_content argument of a call of parse_csv_menu
    parse_result,     \* what the call raised or returned, None before it
    config_flow,      \* the fields of the config flow in progress, None without one
    options_flow,     \* the fields of the options flow in progress, None without one
    other_options_flow \* the same for a second options flow of the entry in progress

vars ==
    <<store, storage_data, start_date, start_week, menus, closure_periods, restarts, data,
      csv_content, parse_result, config_flow, options_flow, other_options_flow>>

\* the state of the coordinator object
coordinator_vars == <<storage_data, start_date, start_week, menus, closure_periods, restarts, data>>

\* the state of the flows and of the parser call
flow_vars == <<csv_content, parse_result, config_flow, options_flow, other_options_flow>>

\* the coordinator object, as the methods below read it
Self ==
    [start_date |-> start_date, start_week |-> start_week, menus |-> menus,
     closure_periods |-> closure_periods, restarts |-> restarts]

(***************************************************************************)
(* models.py                                                               *)
(***************************************************************************)
\* MealData.from_dict
MealData_from_dict(d) ==
    IF ~Truthy(d) THEN None
    ELSE LET attributes == Restrict(d, DOMAIN d \ {"value"})
         IN  [value |-> DictGet(d, "value", NoneStr),
              attributes |-> IF DOMAIN attributes # {} THEN attributes ELSE None]

\* MealData.to_dict
MealData_to_dict(meal) ==
    IF meal.value = NoneStr \/ meal.value = "" THEN None
    ELSE IF meal.attributes # None
         THEN [k \in {"value"} \cup DOMAIN meal.attributes |->
                 IF k \in DOMAIN meal.attributes THEN meal.attributes[k] ELSE meal.value]
         ELSE [value |-> meal.value]

\* MenuInfo.from_config
MenuInfo_from_config(menu_id, menu_info) ==
    [menu_id |-> menu_id,
     menu_name |-> menu_info.menu_name,
     effective_date |-> FromIsoFormat(menu_info.effective_date),
     total_weeks |-> menu_info.total_weeks,
     menu_data |-> menu_info.menu_data]

\* ClosurePeriod.from_dict: None when a date is invalid
ClosurePeriod_from_dict(d) ==
    IF IsValidIso(d.start) /\ IsValidIso(d.end)
    THEN [start |-> FromIsoFormat(d.start), end |-> FromIsoFormat(d.end)]
    ELSE None

\* ClosurePeriod.contains
ClosurePeriod_contains(period, check_date) ==
    period.start <= check_date /\ check_date <= period.end

(***************************************************************************)
(* coordinator.py: loading                                                 *)
(***************************************************************************)
\* list.sort(key=lambda m: m.effective_date): stable, ascending
RECURSIVE SortByEffectiveDate(_)
SortByEffectiveDate(ms) ==
    IF ms = <<>> THEN <<>>
    ELSE LET n == Len(ms)
             last == ms[n]
             rest == SortByEffectiveDate(SubSeq(ms, 1, n - 1))
             k == Cardinality({i \in 1..Len(rest) : rest[i].effective_date <= last.effective_date})
         IN  SubSeq(rest, 1, k) \o <<last>> \o SubSeq(rest, k + 1, Len(rest))

\* _load_menus without the sort
_load_menus_unsorted(doc) ==
    [i \in 1..Len(doc.menus) |-> MenuInfo_from_config(doc.menus[i].menu_id, doc.menus[i].info)]

\* _load_menus: the value it leaves in self._menus
_load_menus(doc) ==
    SortByEffectiveDate([i \in 1..Len(doc.menus) |->
                            MenuInfo_from_config(doc.menus[i].menu_id, doc.menus[i].info)])

\* _load_options: the value it leaves in self._closure_periods
RECURSIVE LoadClosurePeriods(_)
LoadClosurePeriods(periods_data) ==
    IF periods_data = <<>> THEN <<>>
    ELSE LET period == ClosurePeriod_from_dict(Head(periods_data))
         IN  (IF period # None THEN <<period>> ELSE <<>>) \o LoadClosurePeriods(Tail(periods_data))

\* _load_options: the value it leaves in self._restarts
LoadRestarts(restarts_data) ==
    LET valid == {iso \in DOMAIN restarts_data : IsValidIso(iso)}
    IN  [d \in {FromIsoFormat(iso) : iso \in valid} |->
            restarts_data[CHOOSE iso \in valid : FromIsoFormat(iso) = d]]

(***************************************************************************)
(* coordinator.py: resolution                                              *)
(***************************************************************************)
\* the loop of _get_menu_for_date from index i on, active_menu being the menu kept so far
RECURSIVE MenuScan(_, _, _, _)
MenuScan(ms, check_date, i, active_menu) ==
    IF i > Len(ms) THEN active_menu
    ELSE IF ms[i].effective_date <= check_date
         THEN MenuScan(ms, check_date, i + 1, ms[i])
         ELSE active_menu

_get_menu_for_date(self, check_date) == MenuScan(self.menus, check_date, 1, None)

\* _is_closed with the start of a closure period excluded
_is_closed_start_exclusive(self, check_date) ==
    IF Weekday(check_date) >= 5 THEN TRUE
    ELSE \E i \in 1..Len(self.closure_periods) :
            /\ self.closure_periods[i].start < check_date
            /\ check_date <= self.closure_periods[i].end

\* _is_closed with the end of a closure period excluded
_is_closed_end_exclusive(self, check_date) ==
    IF Weekday(check_date) >= 5 THEN TRUE
    ELSE \E i \in 1..Len(self.closure_periods) :
            /\ self.closure_periods[i].start <= check_date
            /\ check_date < self.closure_periods[i].end

_is_closed(self, check_date) ==
    IF Weekday(check_date) >= 5 THEN TRUE
    ELSE \E i \in 1..Len(self.closure_periods) :
            ClosurePeriod_contains(self.closure_periods[i], check_date)

\* sorted(keys)
RECURSIVE Sorted(_)
Sorted(S) ==
    IF S = {} THEN <<>>
    ELSE LET m == CHOOSE x \in S : \A y \in S : x <= y
         IN  <<m>> \o Sorted(S \ {m})

\* the restart loop of _get_current_week from index i on: the effective start (date, week)
RECURSIVE RestartScan(_, _, _, _, _)
RestartScan(self, sorted_restarts, check_date, i, effective) ==
    IF i > Len(sorted_restarts) THEN effective
    ELSE IF sorted_restarts[i] <= check_date
         THEN RestartScan(self, sorted_restarts, check_date, i + 1,
                          [date |-> sorted_restarts[i], week |-> self.restarts[sorted_restarts[i]]])
         ELSE effective

\* _get_current_week taking the latest restart whatever its date
_get_current_week_any_restart(self, check_date) ==
    LET menu == _get_menu_for_date(self, check_date)
    IN  IF menu = None THEN 1
        ELSE LET keys == Sorted(DOMAIN self.restarts)
                 effective == IF keys = <<>> THEN [date |-> self.start_date, week |-> self.start_week]
                              ELSE [date |-> keys[Len(keys)], week |-> self.restarts[keys[Len(keys)]]]
                 start_monday == effective.date - Weekday(effective.date)
                 check_monday == check_date - Weekday(check_date)
                 weeks_diff == (check_monday - start_monday) \div 7
             IN  ((effective.week - 1 + weeks_diff) % menu.total_weeks) + 1

\* _get_current_week with the cycle length fixed to the fallback instead of the menu's
_get_current_week_fixed_cycle(self, check_date) ==
    LET menu == _get_menu_for_date(self, check_date)
    IN  IF menu = None THEN 1
        ELSE LET effective == RestartScan(self, Sorted(DOMAIN self.restarts), check_date, 1,
                                          [date |-> self.start_date, week |-> self.start_week])
                 start_monday == effective.date - Weekday(effective.date)
                 check_monday == check_date - Weekday(check_date)
                 weeks_diff == (check_monday - start_monday) \div 7
             IN  ((effective.week - 1 + weeks_diff) % 4) + 1

\* _get_current_week resolving against the fallback cycle of 4 weeks when no menu governs
_get_current_week_fallback_cycle(self, check_date) ==
    LET menu == _get_menu_for_date(self, check_date)
        total_weeks == IF menu = None THEN 4 ELSE menu.total_weeks
        effective == RestartScan(self, Sorted(DOMAIN self.restarts), check_date, 1,
                                 [date |-> self.start_date, week |-> self.start_week])
        start_monday == effective.date - Weekday(effective.date)
        check_monday == check_date - Weekday(check_date)
        weeks_diff == (check_monday - start_monday) \div 7
    IN  ((effective.week - 1 + weeks_diff) % total_weeks) + 1

\* _get_current_week with the remainder truncated toward zero instead of floored
_get_current_week_truncated(self, check_date) ==
    LET menu == _get_menu_for_date(self, check_date)
    IN  IF menu = None THEN 1
        ELSE LET effective == RestartScan(self, Sorted(DOMAIN self.restarts), check_date, 1,
                                          [date |-> self.start_date, week |-> self.start_week])
                 start_monday == effective.date - Weekday(effective.date)
                 check_monday == check_date - Weekday(check_date)
                 x == effective.week - 1 + ((check_monday - start_monday) \div 7)
             IN  (IF x >= 0 THEN x % menu.total_weeks ELSE 0 - ((0 - x) % menu.total_weeks)) + 1

\* _get_current_week counting the weeks between the dates themselves, not their Mondays
_get_current_week_from_dates(self, check_date) ==
    LET menu == _get_menu_for_date(self, check_date)
    IN  IF menu = None THEN 1
        ELSE LET effective == RestartScan(self, Sorted(DOMAIN self.restarts), check_date, 1,
                                          [date |-> self.start_date, week |-> self.start_week])
                 weeks_diff == (check_date - effective.date) \div 7
             IN  ((effective.week - 1 + weeks_diff) % menu.total_weeks) + 1

\* _get_current_week with calendar weeks that run from Sunday to Saturday
_get_current_week_from_sunday(self, check_date) ==
    LET menu == _get_menu_for_date(self, check_date)
    IN  IF menu = None THEN 1
        ELSE LET total_weeks == menu.total_weeks
                 effective == RestartScan(self, Sorted(DOMAIN self.restarts), check_date, 1,
                                          [date |-> self.start_date, week |-> self.start_week])
                 start_sunday == effective.date - ((Weekday(effective.date) + 1) % 7)
                 check_sunday == check_date - ((Weekday(check_date) + 1) % 7)
                 weeks_diff == (check_sunday - start_sunday) \div 7
             IN  ((effective.week - 1 + weeks_diff) % total_weeks) + 1

_get_current_week(self, check_date) ==
    LET menu == _get_menu_for_date(self, check_date)
    IN  IF menu = None THEN 1
        ELSE LET total_weeks == menu.total_weeks
                 effective == RestartScan(self, Sorted(DOMAIN self.restarts), check_date, 1,
                                          [date |-> self.start_date, week |-> self.start_week])
                 start_monday == effective.date - Weekday(effective.date)
                 check_monday == check_date - Weekday(check_date)
                 weeks_diff == (check_monday - start_monday) \div 7
             IN  ((effective.week - 1 + weeks_diff) % total_weeks) + 1

\* the record lookup with the 0-based weekday() as the day key
DayRecord_zero_based(self, menu, check_date) ==
    LET week == _get_current_week(self, check_date)
        week_data == DictGet(menu.menu_data, ToString(week), EmptyDict)
    IN  DictGet(week_data, ToString(Weekday(check_date)), None)

\* the record of the resolved week and day in the governing menu, or None
DayRecord(self, menu, check_date) ==
    LET week == _get_current_week(self, check_date)
        day_number == WEEKDAY_TO_CSV[Weekday(check_date)]
        week_data == DictGet(menu.menu_data, ToString(week), EmptyDict)
    IN  DictGet(week_data, ToString(day_number), None)

_get_day_data(self, check_date) ==
    IF _is_closed(self, check_date) THEN EmptyDict
    ELSE LET menu == _get_menu_for_date(self, check_date)
         IN  IF menu = None THEN EmptyDict
             ELSE LET day_data == DayRecord(self, menu, check_date)
                  IN  IF Truthy(day_data) THEN DictGet(day_data, "day_attrs", EmptyDict)
                      ELSE EmptyDict

_get_meal_for_date(self, check_date, meal_type) ==
    IF _is_closed(self, check_date) THEN None
    ELSE LET menu == _get_menu_for_date(self, check_date)
         IN  IF menu = None THEN None
             ELSE LET day_data == DayRecord(self, menu, check_date)
                  IN  IF Truthy(day_data)
                      THEN MealData_from_dict(DictGet(day_data, meal_type, None))
                      ELSE None

\* the name lookup falling back to the first loaded menu when no menu governs the date
_get_menu_name_for_date_first_menu(self, check_date) ==
    LET menu == _get_menu_for_date(self, check_date)
    IN  IF menu # None THEN menu.menu_name
        ELSE IF Len(self.menus) > 0 THEN self.menus[1].menu_name ELSE "Unknown"

_get_menu_name_for_date(self, check_date) ==
    LET menu == _get_menu_for_date(self, check_date)
    IN  IF menu # None THEN menu.menu_name ELSE "Unknown"

\* max_days of _get_next_valid_date
max_days == 30

\* the loop of _get_next_valid_date with `left` iterations to go
RECURSIVE NextValidScan(_, _, _)
NextValidScan(self, check_date, left) ==
    IF left = 0 THEN None
    ELSE IF ~_is_closed(self, check_date) THEN [date |-> check_date]
         ELSE NextValidScan(self, check_date + 1, left - 1)

\* the search starting at from_date itself
_get_next_valid_date_from_today(self, from_date) == NextValidScan(self, from_date, max_days)

\* None, or [date |-> d] for the date found
_get_next_valid_date(self, from_date) == NextValidScan(self, from_date + 1, max_days)

\* _build_day_menu_data reading the schedule whether or not the day is closed
_build_day_menu_data_unguarded(self, check_date) ==
    LET menu == _get_menu_for_date(self, check_date)
        day_data == IF menu = None THEN None ELSE DayRecord(self, menu, check_date)
        day_number == WEEKDAY_TO_CSV[Weekday(check_date)]
        meal(meal_type) == IF Truthy(day_data) THEN MealData_from_dict(DictGet(day_data, meal_type, None))
                           ELSE None
    IN  [date |-> check_date,
         week |-> _get_current_week(self, check_date),
         day_number |-> day_number,
         day_name |-> DictGet(WEEKDAY_NAMES, day_number, "Unknown"),
         menu_name |-> _get_menu_name_for_date(self, check_date),
         is_closed |-> _is_closed(self, check_date),
         day_attrs |-> IF Truthy(day_data) THEN DictGet(day_data, "day_attrs", EmptyDict) ELSE EmptyDict,
         main_course |-> meal("main_course"),
         second_course |-> meal("second_course"),
         side |-> meal("side"),
         fruit |-> meal("fruit")]

_build_day_menu_data(self, check_date) ==
    LET is_closed == _is_closed(self, check_date)
        day_number == WEEKDAY_TO_CSV[Weekday(check_date)]
    IN  [date |-> check_date,
         week |-> _get_current_week(self, check_date),
         day_number |-> day_number,
         day_name |-> DictGet(WEEKDAY_NAMES, day_number, "Unknown"),
         menu_name |-> _get_menu_name_for_date(self, check_date),
         is_closed |-> is_closed,
         day_attrs |-> IF ~is_closed THEN _get_day_data(self, check_date) ELSE EmptyDict,
         main_course |-> IF is_closed THEN None ELSE _get_meal_for_date(self, check_date, "main_course"),
         second_course |-> IF is_closed THEN None ELSE _get_meal_for_date(self, check_date, "second_course"),
         side |-> IF is_closed THEN None ELSE _get_meal_for_date(self, check_date, "side"),
         fruit |-> IF is_closed THEN None ELSE _get_meal_for_date(self, check_date, "fruit")]

\* total_weeks reported by a refresh when no menu governs today
DefaultTotalWeeks == 4

\* the CoordinatorData _async_update_data returns when date.today() is today
CoordinatorData(self, today) ==
    LET next_valid == _get_next_valid_date(self, today)
        menu == _get_menu_for_date(self, today)
    IN  [today |-> _build_day_menu_data(self, today),
         next |-> IF next_valid # None THEN _build_day_menu_data(self, next_valid.date) ELSE None,
         total_weeks |-> IF menu # None THEN menu.total_weeks ELSE DefaultTotalWeeks]

(***************************************************************************)
(* config_flow.py: parse_csv_menu.  The CSV text is modelled as the rows    *)
(* csv.reader yields, a row being a sequence of cells and a cell being its  *)
(* text without the surrounding whitespace together with whether whitespace *)
(* surrounds it.  Column positions are 1-based here (0-based in the         *)
(* source), so "len(row) > idx" reads "Len(row) >= p".                      *)
(***************************************************************************)
Cell(text) == [text |-> text, pad |-> FALSE]

Padded(text) == [text |-> text, pad |-> TRUE]

\* str.strip
Strip(cell) == cell.text

\* str.lower, over the column names the inputs use
Lower(s) ==
    CASE s = "Week_Number" -> "week_number"
      [] s = "WEEK_DAY" -> "week_day"
      [] s = "Main_Course" -> "main_course"
      [] s = "Second_Course" -> "second_course"
      [] s = "SIDE" -> "side"
      [] s = "Fruit" -> "fruit"
      [] s = "Note" -> "note"
      [] s = "Allergens" -> "allergens"
      [] s = "BIO" -> "bio"
      [] s = "Origin" -> "origin"
      [] OTHER -> s

\* the largest integer written in a cell of the inputs
MaxCellInt == 9

CellInts == (0 - 1)..MaxCellInt

\* int(s) does not raise ValueError
IsInt(s) == \E n \in CellInts : ToString(n) = s

\* int(s)
IntOf(s) == CHOOSE n \in CellInts : ToString(n) = s

CSV_COL_WEEK_NUMBER == "week_number"

CSV_COL_WEEK_DAY == "week_day"

CSV_COL_MAIN_COURSE == "main_course"

CSV_COL_SECOND_COURSE == "second_course"

CSV_COL_SIDE == "side"

CSV_COL_FRUIT == "fruit"

\* the six required columns in the order header.index looks them up
AnchorColumns ==
    <<CSV_COL_WEEK_NUMBER, CSV_COL_WEEK_DAY, CSV_COL_MAIN_COURSE,
      CSV_COL_SECOND_COURSE, CSV_COL_SIDE, CSV_COL_FRUIT>>

\* header.index(name): the first position of name, 0 standing for the ValueError
HeaderIndex(header, name) ==
    IF \E p \in 1..Len(header) : header[p] = name
    THEN CHOOSE p \in 1..Len(header) : header[p] = name /\ \A q \in 1..(p - 1) : header[q] # name
    ELSE 0

\* the loops over the attribute columns first..last: the cell of a column is stored under
\* the column's name when the row reaches it and it is not empty after trimming
RECURSIVE AttrsScan(_, _, _, _, _)
AttrsScan(row, header, first, last, acc) ==
    IF first > last THEN acc
    ELSE AttrsScan(row, header, first + 1, last,
                   IF Len(row) >= first /\ Strip(row[first]) # ""
                   THEN (header[first] :> Strip(row[first])) @@ acc
                   ELSE acc)

\* build_course_data for the anchor at position base whose attribute columns end at last
build_course_data(row, header, base, last) ==
    LET value == IF Len(row) >= base THEN Strip(row[base]) ELSE ""
    IN  IF value = "" THEN None
        ELSE AttrsScan(row, header, base + 1, last, [value |-> value])

\* the record stored for a row, idx being the positions of the six anchors
StoredRecord(row, header, idx) ==
    [day_attrs |-> AttrsScan(row, header, idx[2] + 1, idx[3] - 1, EmptyDict),
     main_course |-> build_course_data(row, header, idx[3], idx[4] - 1),
     second_course |-> build_course_data(row, header, idx[4], idx[5] - 1),
     side |-> build_course_data(row, header, idx[5], idx[6] - 1),
     fruit |-> build_course_data(row, header, idx[6], Len(header))]

\* menu_data[week_str][day_str] = record, after menu_data.setdefault(week_str, {})
StoreRecord(menu_data, week, day, record) ==
    LET week_str == ToString(week)
        day_str == ToString(day)
    IN  (week_str :> ((day_str :> record) @@ DictGet(menu_data, week_str, EmptyDict))) @@ menu_data

\* max(week_number_idx, .., fruit_idx)
MaxIndex(idx) == CHOOSE m \in {idx[k] : k \in 1..6} : \A k \in 1..6 : idx[k] <= m

\* the body of the row loop keeping the first record of a (week, day)
ParseRow_keep_first(row, header, idx, acc) ==
    IF row = <<>> \/ \A p \in 1..Len(row) : Strip(row[p]) = "" THEN acc
    ELSE IF Len(row) < MaxIndex(idx) THEN acc
    ELSE IF ~IsInt(Strip(row[idx[1]])) THEN acc
    ELSE LET week == IntOf(Strip(row[idx[1]]))
         IN  IF week < 1 THEN acc
             ELSE LET max_week == IF week > acc.max_week THEN week ELSE acc.max_week
                  IN  IF ~IsInt(Strip(row[idx[2]])) THEN [acc EXCEPT !.max_week = max_week]
                      ELSE LET day == IntOf(Strip(row[idx[2]]))
                           IN  IF day < 1 \/ day > 7 THEN [acc EXCEPT !.max_week = max_week]
                               ELSE IF /\ ToString(week) \in DOMAIN acc.menu_data
                                       /\ ToString(day) \in DOMAIN acc.menu_data[ToString(week)]
                                    THEN [acc EXCEPT !.max_week = max_week]
                                    ELSE [menu_data |-> StoreRecord(acc.menu_data, week, day,
                                                                    StoredRecord(row, header, idx)),
                                          max_week |-> max_week]

\* the body of the row loop accepting the day number 0
ParseRow_day_from_zero(row, header, idx, acc) ==
    IF row = <<>> \/ \A p \in 1..Len(row) : Strip(row[p]) = "" THEN acc
    ELSE IF Len(row) < MaxIndex(idx) THEN acc
    ELSE IF ~IsInt(Strip(row[idx[1]])) THEN acc
    ELSE LET week == IntOf(Strip(row[idx[1]]))
         IN  IF week < 1 THEN acc
             ELSE LET max_week == IF week > acc.max_week THEN week ELSE acc.max_week
                  IN  IF ~IsInt(Strip(row[idx[2]])) THEN [acc EXCEPT !.max_week = max_week]
                      ELSE LET day == IntOf(Strip(row[idx[2]]))
                           IN  IF day < 0 \/ day > 7 THEN [acc EXCEPT !.max_week = max_week]
                               ELSE [menu_data |-> StoreRecord(acc.menu_data, week, day,
                                                               StoredRecord(row, header, idx)),
                                     max_week |-> max_week]

\* the body of the row loop dropping what was read so far at a row with a bad day number
ParseRow_bad_day_clears(row, header, idx, acc) ==
    IF row = <<>> \/ \A p \in 1..Len(row) : Strip(row[p]) = "" THEN acc
    ELSE IF Len(row) < MaxIndex(idx) THEN acc
    ELSE IF ~IsInt(Strip(row[idx[1]])) THEN acc
    ELSE LET week == IntOf(Strip(row[idx[1]]))
         IN  IF week < 1 THEN acc
             ELSE LET max_week == IF week > acc.max_week THEN week ELSE acc.max_week
                  IN  IF ~IsInt(Strip(row[idx[2]])) THEN [acc EXCEPT !.max_week = max_week]
                      ELSE LET day == IntOf(Strip(row[idx[2]]))
                           IN  IF day < 1 \/ day > 7 THEN [menu_data |-> EmptyDict, max_week |-> max_week]
                               ELSE [menu_data |-> StoreRecord(acc.menu_data, week, day,
                                                               StoredRecord(row, header, idx)),
                                     max_week |-> max_week]

\* the body of the row loop of parse_csv_menu: acc holds menu_data and max_week; a blank
\* row, a row shorter than the last anchor, a week that is no integer >= 1 and a day that
\* is no integer in 1..7 skip the row; max_week is raised before the day is read
ParseRow(row, header, idx, acc) ==
    IF row = <<>> \/ \A p \in 1..Len(row) : Strip(row[p]) = "" THEN acc
    ELSE IF Len(row) < MaxIndex(idx) THEN acc
    ELSE IF ~IsInt(Strip(row[idx[1]])) THEN acc
    ELSE LET week == IntOf(Strip(row[idx[1]]))
         IN  IF week < 1 THEN acc
             ELSE LET max_week == IF week > acc.max_week THEN week ELSE acc.max_week
                  IN  IF ~IsInt(Strip(row[idx[2]])) THEN [acc EXCEPT !.max_week = max_week]
                      ELSE LET day == IntOf(Strip(row[idx[2]]))
                           IN  IF day < 1 \/ day > 7 THEN [acc EXCEPT !.max_week = max_week]
                               ELSE [menu_data |-> StoreRecord(acc.menu_data, week, day,
                                                               StoredRecord(row, header, idx)),
                                     max_week |-> max_week]

\* the row loop from row i on
RECURSIVE ParseRows(_, _, _, _, _)
ParseRows(csv, header, idx, i, acc) ==
    IF i > Len(csv) THEN acc
    ELSE ParseRows(csv, header, idx, i + 1, ParseRow(csv[i], header, idx, acc))

\* raise ValueError(..): the message and, for a missing column, the column it names
Raise(message, column) == [raised |-> TRUE, message |-> message, column |-> column]

\* parse_csv_menu without the check of the order of the columns
parse_csv_menu_unordered(csv) ==
    IF csv = <<>> THEN Raise("Empty CSV file", NoneStr)
    ELSE LET header == [p \in 1..Len(csv[1]) |-> Lower(Strip(csv[1][p]))]
             missing == {k \in 1..6 : HeaderIndex(header, AnchorColumns[k]) = 0}
         IN  IF missing # {}
             THEN Raise("Missing required column",
                        AnchorColumns[CHOOSE k \in missing : \A j \in missing : k <= j])
             ELSE LET idx == [k \in 1..6 |-> HeaderIndex(header, AnchorColumns[k])]
                      acc == ParseRows(csv, header, idx, 2, [menu_data |-> EmptyDict, max_week |-> 0])
                  IN  [raised |-> FALSE,
                       menu_data |-> acc.menu_data,
                       total_weeks |-> IF acc.max_week > 0 THEN acc.max_week ELSE 1]

\* parse_csv_menu: the ValueError raised, or the returned (menu_data, total_weeks); the
\* first header.index that fails names its column in the error
parse_csv_menu(csv) ==
    IF csv = <<>> THEN Raise("Empty CSV file", NoneStr)
    ELSE LET header == [p \in 1..Len(csv[1]) |-> Lower(Strip(csv[1][p]))]
             missing == {k \in 1..6 : HeaderIndex(header, AnchorColumns[k]) = 0}
         IN  IF missing # {}
             THEN Raise("Missing required column",
                        AnchorColumns[CHOOSE k \in missing : \A j \in missing : k <= j])
             ELSE LET idx == [k \in 1..6 |-> HeaderIndex(header, AnchorColumns[k])]
                  IN  IF ~(\A k \in 1..5 : idx[k] < idx[k + 1])
                      THEN Raise("Columns must be in order", NoneStr)
                      ELSE LET acc == ParseRows(csv, header, idx, 2,
                                                [menu_data |-> EmptyDict, max_week |-> 0])
                           IN  [raised |-> FALSE,
                                menu_data |-> acc.menu_data,
                                total_weeks |-> IF acc.max_week > 0 THEN acc.max_week ELSE 1]

(***************************************************************************)
(* Configurations: the persisted documents the model starts from.  A       *)
(* document is what async_step_upload saves and the options flow edits:    *)
(* start_date, start_week, menus (in insertion order), closure_periods,    *)
(* restarts.                                                               *)
(***************************************************************************)
\* first day of the calendar window, a Monday
WindowStart == <<2024, 12, 16>>

\* the dates (ordinals) a refresh may see as date.today()
WindowDays == FromIsoFormat(WindowStart)..(FromIsoFormat(WindowStart) + 7 * WindowWeeks - 1)

Weeks == 1..MaxWeeks

\* a Wednesday of the first week and the Monday of the second
StartDates == {<<2024, 12, 18>>, <<2024, 12, 23>>}

\* a Thursday of the second week and the Wednesday of the third
RestartDates == {<<2024, 12, 26>>, <<2025, 1, 1>>}

\* a Tuesday of the first week and the Monday of the third
EffectiveDates == {<<2024, 12, 17>>, <<2024, 12, 30>>}

\* a Thursday, a Monday, a Friday, and a string that is no date
ClosureDates == {<<2024, 12, 19>>, <<2024, 12, 23>>, <<2024, 12, 27>>, <<2024, 12, 32>>}

MenuIds == <<"menu-a", "menu-b", "menu-c">>

\* the record parse_csv_menu stores for one row: day attributes and four meals, a meal
\* being None when its cell is empty and holding only the attributes whose cell is not
RowRecord(tag, w, d) ==
    LET cell == "-" \o ToString(w) \o "-" \o ToString(d)
    IN  [day_attrs |-> IF d % 2 = 1 THEN [note |-> tag \o "-note" \o cell] ELSE EmptyDict,
         main_course |-> IF w % 2 = 1
                         THEN [value |-> tag \o "-main" \o cell, allergens |-> "gluten" \o cell]
                         ELSE [value |-> tag \o "-main" \o cell],
         second_course |-> [value |-> tag \o "-second" \o cell],
         side |-> IF d = 3 THEN None ELSE [value |-> tag \o "-side" \o cell, bio |-> "yes"],
         fruit |-> IF w = 2 THEN None ELSE [value |-> tag \o "-fruit" \o cell]]

\* the weeks mapping parse_csv_menu builds from rows for the given weeks and days
MenuData(tag, weeks, days) ==
    [wk \in {ToString(w) : w \in weeks} |->
        [dk \in {ToString(d) : d \in days} |->
            RowRecord(tag, CHOOSE w \in weeks : ToString(w) = wk,
                           CHOOSE d \in days : ToString(d) = dk)]]

\* "full": a row for every week and school day; "sparse": no row for week 1 (when there
\* are other weeks) and rows only for Monday, Wednesday and Saturday
MenuVariant(tag, variant, total_weeks) ==
    IF variant = "full" THEN MenuData(tag, 1..total_weeks, 1..5)
    ELSE MenuData(tag, IF total_weeks = 1 THEN {1} ELSE 2..total_weeks, {1, 3, 6})

\* one item of the menus dict of the document
MenuItem(i, effective_date, total_weeks, variant) ==
    [menu_id |-> MenuIds[i],
     info |-> [menu_name |-> "Menu " \o ToString(i),
               effective_date |-> effective_date,
               menu_data |-> MenuVariant(MenuIds[i], variant, total_weeks),
               total_weeks |-> total_weeks]]

\* the menus dicts of up to two menus, in every insertion order of effective dates
MenuDicts(variants) ==
    UNION {{[i \in 1..n |-> MenuItem(i, c[i][1], c[i][2], c[i][3])] :
               c \in [1..n -> EffectiveDates \X Weeks \X variants]} : n \in 0..2}

\* a Tuesday of each week of the window's first three weeks
SelectionDates == {<<2024, 12, 17>>, <<2024, 12, 24>>, <<2024, 12, 31>>}

\* the menus dicts of three menus with the three selection dates in every insertion order
SelectionMenuDicts ==
    {[i \in 1..3 |-> MenuItem(i, c[i], i, "sparse")] :
        c \in {f \in [1..3 -> SelectionDates] : \A i, j \in 1..3 : i # j => f[i] # f[j]}}

\* the restarts dicts: any week at the first restart date, week 1 or the largest week at
\* the second
RestartDicts ==
    {rs \in UNION {[S -> Weeks] : S \in SUBSET RestartDates} :
        <<2025, 1, 1>> \in DOMAIN rs => rs[<<2025, 1, 1>>] \in {1, MaxWeeks}}

ClosureLists ==
    LET periods == {[start |-> s, end |-> e] : s \in ClosureDates, e \in ClosureDates}
    IN  {<<>>} \cup {<<p>> : p \in periods} \cup {<<p, q>> : p \in periods, q \in periods}

ChristmasClosure == [start |-> <<2024, 12, 23>>, end |-> <<2024, 12, 27>>]

Document(sd, sw, ms, cps, rs) ==
    [start_date |-> sd, start_week |-> sw, menus |-> ms, closure_periods |-> cps, restarts |-> rs]

\* menus dicts already in effective-date order: none, one menu, or two with distinct dates
OrderedMenuDicts ==
    {<<>>}
    \cup {<<MenuItem(1, e, w, "full")>> : e \in EffectiveDates, w \in Weeks}
    \cup {<<MenuItem(1, <<2024, 12, 17>>, w1, "full"), MenuItem(2, <<2024, 12, 30>>, w2, "full")>> :
             w1 \in Weeks, w2 \in Weeks}

\* every base anchor, restart set and cycle length, under one closure period
RotationDocuments ==
    {Document(sd, sw, ms, <<ChristmasClosure>>, rs) :
        sd \in StartDates, sw \in Weeks, ms \in OrderedMenuDicts, rs \in RestartDicts}

\* every list of up to two closure periods, under one rotation
ClosureDocuments ==
    {Document(<<2024, 12, 18>>, 2,
              <<MenuItem(1, <<2024, 12, 17>>, 2, "full"), MenuItem(2, <<2024, 12, 30>>, MaxWeeks, "full")>>,
              cps, (<<2024, 12, 26>> :> 1)) :
        cps \in ClosureLists}

\* every menu sequence with full and sparse schedules, with and without closure and restart
PlanDocuments ==
    {Document(<<2024, 12, 18>>, 2, ms, cps, rs) :
        ms \in MenuDicts({"full", "sparse"}),
        cps \in {<<>>, <<ChristmasClosure>>},
        rs \in {EmptyDict, (<<2024, 12, 26>> :> 1)}}

\* three menus with distinct effective dates in every insertion order
SelectionDocuments ==
    {Document(<<2024, 12, 18>>, 1, ms, <<>>, EmptyDict) : ms \in SelectionMenuDicts}

\* the last days of a closure that starts with the window: 29 and 30 days after the
\* window's first day, and a day after every search horizon
LongClosureEnds == {<<2025, 1, 14>>, <<2025, 1, 15>>, <<2025, 2, 28>>}

\* one closure period that covers the window and the weeks after it
LongClosureDocuments ==
    {Document(<<2024, 12, 18>>, 1, <<MenuItem(1, <<2024, 12, 17>>, 2, "full")>>,
              <<[start |-> WindowStart, end |-> e]>>, EmptyDict) :
        e \in LongClosureEnds}

Documents ==
    RotationDocuments \cup ClosureDocuments \cup PlanDocuments \cup SelectionDocuments
    \cup LongClosureDocuments

(***************************************************************************)
(* Actions.                                                                *)
(***************************************************************************)
\* SchoolCanteenMenuDataCoordinator.__init__, over a persisted document
Init ==
    /\ store \in Documents
    /\ storage_data = EmptyDict
    /\ start_date = NoDate
    /\ start_week = 1
    /\ menus = <<>>
    /\ closure_periods = <<>>
    /\ restarts = EmptyDict
    /\ data = None
    /\ csv_content = <<>>
    /\ parse_result = None
    /\ config_flow = None
    /\ options_flow = None
    /\ other_options_flow = None

\* SchoolCanteenMenuDataCoordinator.async_setup: storage.async_load, then the fields;
\* date.fromisoformat raises on an invalid start or effective date and setup fails
async_setup ==
    /\ start_date = NoDate
    /\ IsValidIso(store.start_date)
    /\ \A i \in 1..Len(store.menus) : IsValidIso(store.menus[i].info.effective_date)
    /\ storage_data' = store
    /\ start_date' = FromIsoFormat(store.start_date)
    /\ start_week' = store.start_week
    /\ menus' = _load_menus(store)
    /\ closure_periods' = LoadClosurePeriods(store.closure_periods)
    /\ restarts' = LoadRestarts(store.restarts)
    /\ UNCHANGED <<store, data>>
    /\ UNCHANGED flow_vars

\* a refresh that keeps the week it resolved for today as the start week
_async_update_data_keeps_week ==
    /\ start_date # NoDate
    /\ \E today \in WindowDays :
          /\ data # None => today \in {data.today.date, data.today.date + 1}
          /\ data' = CoordinatorData(Self, today)
    /\ start_week' = data'.today.week
    /\ UNCHANGED <<store, storage_data, start_date, menus, closure_periods, restarts>>
    /\ UNCHANGED flow_vars

\* a refresh that reads the closure periods from the document on disk
_async_update_data_reads_store ==
    /\ start_date # NoDate
    /\ \E today \in WindowDays :
          /\ data # None => today \in {data.today.date, data.today.date + 1}
          /\ data' = CoordinatorData([Self EXCEPT !.closure_periods = LoadClosurePeriods(store.closure_periods)],
                                     today)
    /\ UNCHANGED <<store, storage_data, start_date, start_week, menus, closure_periods, restarts>>
    /\ UNCHANGED flow_vars

\* SchoolCanteenMenuDataCoordinator._async_update_data, first run by
\* async_config_entry_first_refresh after async_setup and then every UPDATE_INTERVAL
\* (one hour): date.today() is the day of the previous refresh or the day after it
_async_update_data ==
    /\ start_date # NoDate
    /\ \E today \in WindowDays :
          /\ data # None => today \in {data.today.date, data.today.date + 1}
          /\ data' = CoordinatorData(Self, today)
    /\ UNCHANGED <<store, storage_data, start_date, start_week, menus, closure_periods, restarts>>
    /\ UNCHANGED flow_vars

Next == async_setup \/ _async_update_data

Spec == Init /\ [][Next]_vars

(***************************************************************************)
(* The parser on its own: every CSV text of a header row and up to MaxRows  *)
(* data rows, and the call of parse_csv_menu on it.                         *)
(***************************************************************************)
\* the eleven-column layout: a day attribute, two attributes of the main course, one of
\* the side and one of the fruit
HeaderAttrs ==
    <<Cell("week_number"), Cell("week_day"), Cell("note"), Cell("main_course"), Cell("allergens"),
      Cell("bio"), Cell("second_course"), Cell("side"), Cell("bio"), Cell("fruit"), Cell("origin")>>

\* the same columns written with capitals and surrounding blanks
HeaderStyled ==
    <<Padded("Week_Number"), Cell("WEEK_DAY"), Padded("Note"), Cell("Main_Course"), Cell("Allergens"),
      Cell("BIO"), Padded("Second_Course"), Cell("SIDE"), Cell("bio"), Cell("Fruit"), Padded("Origin")>>

\* two attribute columns of the main course with the same name
HeaderTwice ==
    <<Cell("week_number"), Cell("week_day"), Cell("note"), Cell("main_course"), Cell("allergens"),
      Cell("allergens"), Cell("second_course"), Cell("side"), Cell("bio"), Cell("fruit"), Cell("origin")>>

\* an attribute column of the main course named "value"
HeaderValue ==
    <<Cell("week_number"), Cell("week_day"), Cell("note"), Cell("main_course"), Cell("value"),
      Cell("bio"), Cell("second_course"), Cell("side"), Cell("bio"), Cell("fruit"), Cell("origin")>>

\* the six required columns alone
HeaderPlain ==
    <<Cell("week_number"), Cell("week_day"), Cell("main_course"), Cell("second_course"),
      Cell("side"), Cell("fruit")>>

\* a column between week_number and week_day, and a second fruit column at the end
HeaderExtra ==
    <<Cell("week_number"), Cell("term"), Cell("week_day"), Cell("note"), Cell("main_course"),
      Cell("allergens"), Cell("second_course"), Cell("side"), Cell("bio"), Cell("fruit"), Cell("fruit")>>

GoodHeaders == {HeaderAttrs, HeaderStyled, HeaderTwice, HeaderValue, HeaderPlain, HeaderExtra}

\* the sequence without its k-th element
Without(seq, k) == [p \in 1..(Len(seq) - 1) |-> IF p < k THEN seq[p] ELSE seq[p + 1]]

\* headers that lack one or two required columns, an empty header line, and headers
\* with the six columns out of order, one of them by an early second fruit column
BadHeaders ==
    {Without(HeaderPlain, k) : k \in 1..6}
    \cup {Without(Without(HeaderAttrs, 8), 4), <<>>, <<Cell("Week Number"), Cell("week_day")>>}
    \cup {<<Cell("week_number"), Cell("week_day"), Cell("second_course"), Cell("main_course"),
            Cell("side"), Cell("fruit")>>,
          <<Cell("week_day"), Cell("week_number"), Cell("main_course"), Cell("second_course"),
            Cell("side"), Cell("fruit")>>,
          <<Cell("week_number"), Cell("week_day"), Cell("fruit"), Cell("main_course"),
            Cell("second_course"), Cell("side"), Cell("fruit")>>}

Headers == GoodHeaders \cup BadHeaders

\* a row for week 1, day 1
RowMonday ==
    <<Cell("1"), Cell("1"), Cell("trip"), Cell("pasta"), Cell("gluten"), Cell("yes"), Cell("fish"),
      Cell("salad"), Cell(""), Cell("apple"), Cell("local")>>

\* a row for week 2, day 7 that ends at the fruit column
RowSunday ==
    <<Cell("2"), Padded("7"), Cell("feast"), Cell("soup"), Cell("milk"), Cell(""), Cell("egg"),
      Cell(""), Cell("frozen"), Cell("pear")>>

\* the data rows: three valid rows, two of them for week 1 day 1, one that ends at the
\* fruit column; then a day 8, a day 0, a day and a week that are no numbers, a week 0,
\* a row that ends before the fruit column, an empty line and a line of blanks
DataRows ==
    {RowMonday,
     <<Padded("1"), Cell("1"), Cell(""), Padded("rice"), Cell(""), Cell("no"), Padded(""),
       Cell("peas"), Padded("yes"), Cell(""), Cell("far")>>,
     RowSunday,
     <<Cell("3"), Cell("8"), Cell(""), Cell("stew"), Cell(""), Cell(""), Cell("ham"),
       Cell("beans"), Cell(""), Cell("plum"), Cell("")>>,
     <<Cell("2"), Cell("0"), Cell(""), Cell("stew"), Cell(""), Cell(""), Cell("ham"),
       Cell("beans"), Cell(""), Cell("plum"), Cell("")>>,
     <<Cell("1"), Cell("Mon"), Cell(""), Cell("stew"), Cell(""), Cell(""), Cell("ham"),
       Cell("beans"), Cell(""), Cell("plum"), Cell("")>>,
     <<Cell("one"), Cell("2"), Cell(""), Cell("stew"), Cell(""), Cell(""), Cell("ham"),
       Cell("beans"), Cell(""), Cell("plum"), Cell("")>>,
     <<Cell("0"), Cell("2"), Cell(""), Cell("stew"), Cell(""), Cell(""), Cell("ham"),
       Cell("beans"), Cell(""), Cell("plum"), Cell("")>>,
     <<Cell("2"), Cell("2"), Cell(""), Cell("stew"), Cell("")>>,
     <<>>,
     <<Padded(""), Cell(""), Padded("")>>}

\* the largest number of data rows of a CSV text
MaxRows == 2

RowLists == UNION {[1..n -> DataRows] : n \in 0..MaxRows}

\* the empty text, and every header line followed by a list of data rows
CsvInputs == {<<>>} \cup {<<h>> \o rows : h \in Headers, rows \in RowLists}

\* a CSV text about to be parsed
ParseInit ==
    /\ csv_content \in CsvInputs
    /\ parse_result = None
    /\ config_flow = None
    /\ options_flow = None
    /\ other_options_flow = None
    /\ store = EmptyDict
    /\ storage_data = EmptyDict
    /\ start_date = NoDate
    /\ start_week = 1
    /\ menus = <<>>
    /\ closure_periods = <<>>
    /\ restarts = EmptyDict
    /\ data = None

\* the call parse_csv_menu(csv_content) of the flows
ParseCsv ==
    /\ parse_result = None
    /\ parse_result' = parse_csv_menu(csv_content)
    /\ UNCHANGED <<store, csv_content, config_flow, options_flow>>
    /\ UNCHANGED other_options_flow
    /\ UNCHANGED coordinator_vars

ParseNext == ParseCsv

ParseSpec == ParseInit /\ [][ParseNext]_vars

(***************************************************************************)
(* The flows that persist menus: the config flow (user step, upload step)   *)
(* and the menu steps of the options flow, over the storage document.  The  *)
(* selectors of the forms validate dates and numbers before a step runs, so *)
(* the steps see valid dates and a start week >= 1; the CSV field is free   *)
(* text and may be left empty.                                              *)
(***************************************************************************)
\* the largest number of menus the options flow adds up to
MaxMenus == 2

\* the CSV texts submitted: empty, a blank, a header line alone, a menu of one week, a
\* menu of two weeks, and a menu under a header line without the fruit column
FlowCsvInputs ==
    {<<>>,
     <<<<Padded("")>>>>,
     <<HeaderPlain>>,
     <<HeaderPlain, RowMonday>>,
     <<HeaderAttrs, RowMonday, RowSunday>>,
     <<Without(HeaderPlain, 6), RowMonday>>}

\* csv_content.strip() is empty: only line ends and blanks
IsBlankText(csv) ==
    \A i \in 1..Len(csv) : csv[i] = <<>> \/ (Len(csv[i]) = 1 /\ Strip(csv[i][1]) = "")

\* SchoolCanteenMenuAsiloConfigFlow.__init__, the user form shown
NewConfigFlow ==
    [step |-> "user", _start_date |-> <<>>, _start_week |-> 1, _menu_name |-> "",
     _menu_data |-> EmptyDict, _total_weeks |-> 4, errors |-> EmptyDict]

\* no entry yet: no storage document, a config flow started, a coordinator not yet set up
FlowInit ==
    /\ store = EmptyDict
    /\ config_flow = NewConfigFlow
    /\ options_flow = None
    /\ other_options_flow = None
    /\ csv_content = <<>>
    /\ parse_result = None
    /\ storage_data = EmptyDict
    /\ start_date = NoDate
    /\ start_week = 1
    /\ menus = <<>>
    /\ closure_periods = <<>>
    /\ restarts = EmptyDict
    /\ data = None

\* async_step_user with user_input: the fields are kept and the upload form is shown
async_step_user ==
    /\ config_flow # None
    /\ config_flow.step = "user"
    /\ \E input_start_date \in StartDates, input_start_week \in Weeks :
          config_flow' = [config_flow EXCEPT !.step = "upload",
                                             !._start_date = input_start_date,
                                             !._start_week = input_start_week,
                                             !._menu_name = "Initial Menu"]
    /\ UNCHANGED <<store, options_flow, csv_content, parse_result>>
    /\ UNCHANGED other_options_flow
    /\ UNCHANGED coordinator_vars

\* async_step_upload with user_input: the text is parsed only when it is not empty, and
\* without errors the document is saved and the entry created
async_step_upload ==
    /\ config_flow # None
    /\ config_flow.step = "upload"
    /\ \E csv \in FlowCsvInputs :
          LET result == parse_csv_menu(csv)
              returned == csv # <<>> /\ ~result.raised
              _menu_data == IF returned THEN result.menu_data ELSE config_flow._menu_data
              _total_weeks == IF returned THEN result.total_weeks ELSE config_flow._total_weeks
              errors == IF csv = <<>> THEN EmptyDict
                        ELSE IF result.raised THEN [menu_csv |-> "invalid_csv"]
                        ELSE IF ~Truthy(_menu_data) THEN [menu_csv |-> "invalid_csv"]
                        ELSE IF config_flow._start_week > _total_weeks
                             THEN [menu_csv |-> "start_week_exceeds_total"]
                             ELSE EmptyDict
          IN  IF errors = EmptyDict
              THEN /\ store' = Document(config_flow._start_date, config_flow._start_week,
                                        <<[menu_id |-> MenuIds[1],
                                           info |-> [menu_name |-> config_flow._menu_name,
                                                     effective_date |-> config_flow._start_date,
                                                     menu_data |-> _menu_data,
                                                     total_weeks |-> _total_weeks]]>>,
                                        <<>>, EmptyDict)
                   /\ config_flow' = None
              ELSE /\ config_flow' = [config_flow EXCEPT !._menu_data = _menu_data,
                                                         !._total_weeks = _total_weeks,
                                                         !.errors = errors]
                   /\ UNCHANGED store
    /\ UNCHANGED <<options_flow, csv_content, parse_result>>
    /\ UNCHANGED other_options_flow
    /\ UNCHANGED coordinator_vars

\* SchoolCanteenMenuOptionsFlow.__init__ and async_step_init without user_input:
\* _get_storage loads the document and the action form is shown
async_step_init_form ==
    /\ store # EmptyDict
    /\ options_flow = None
    /\ options_flow' = [step |-> "init", _storage |-> store, _selected_menu_id |-> NoneStr,
                        _new_menu_data |-> EmptyDict, _new_total_weeks |-> 0, errors |-> EmptyDict]
    /\ UNCHANGED <<store, config_flow, csv_content, parse_result>>
    /\ UNCHANGED other_options_flow
    /\ UNCHANGED coordinator_vars

\* async_step_init with user_input: the form of the chosen menu action is shown
async_step_init ==
    /\ options_flow # None
    /\ options_flow.step = "init"
    /\ \E action \in {"edit_menu", "add_menu"} :
          /\ action = "add_menu" => Len(options_flow._storage.menus) < MaxMenus
          /\ options_flow' = [options_flow EXCEPT !.step = action]
    /\ UNCHANGED <<store, config_flow, csv_content, parse_result>>
    /\ UNCHANGED other_options_flow
    /\ UNCHANGED coordinator_vars

\* async_step_edit_menu with user_input: a menu of the loaded document is selected
async_step_edit_menu ==
    /\ options_flow # None
    /\ options_flow.step = "edit_menu"
    /\ \E i \in 1..Len(options_flow._storage.menus) :
          options_flow' = [options_flow EXCEPT !.step = "edit_menu_details",
                                               !._selected_menu_id = options_flow._storage.menus[i].menu_id]
    /\ UNCHANGED <<store, config_flow, csv_content, parse_result>>
    /\ UNCHANGED other_options_flow
    /\ UNCHANGED coordinator_vars

\* async_step_edit_menu_details with user_input: a text that is not blank replaces the
\* menu data, a blank one keeps it; without errors the document is saved
async_step_edit_menu_details ==
    /\ options_flow # None
    /\ options_flow.step = "edit_menu_details"
    /\ \E new_date \in EffectiveDates, csv \in FlowCsvInputs :
          LET stored_menus == options_flow._storage.menus
              i == CHOOSE j \in 1..Len(stored_menus) : stored_menus[j].menu_id = options_flow._selected_menu_id
              current_menu == stored_menus[i].info
              result == parse_csv_menu(csv)
              returned == ~IsBlankText(csv) /\ ~result.raised
              new_menu_data == IF returned THEN result.menu_data ELSE current_menu.menu_data
              new_total_weeks == IF returned THEN result.total_weeks ELSE current_menu.total_weeks
              errors == IF IsBlankText(csv) THEN EmptyDict
                        ELSE IF result.raised \/ ~Truthy(new_menu_data) THEN [menu_csv |-> "invalid_csv"]
                        ELSE EmptyDict
              new_menus == [stored_menus EXCEPT ![i].info = [menu_name |-> "Edited Menu",
                                                             effective_date |-> new_date,
                                                             menu_data |-> new_menu_data,
                                                             total_weeks |-> new_total_weeks]]
          IN  IF errors = EmptyDict
              THEN /\ store' = [options_flow._storage EXCEPT !.menus = new_menus]
                   /\ options_flow' = None
              ELSE /\ options_flow' = [options_flow EXCEPT !.errors = errors]
                   /\ UNCHANGED store
    /\ UNCHANGED <<config_flow, csv_content, parse_result>>
    /\ UNCHANGED other_options_flow
    /\ UNCHANGED coordinator_vars

\* async_step_add_menu with user_input: a blank text is refused, another one is parsed;
\* without errors the menu is added to the document under a new id and saved
async_step_add_menu ==
    /\ options_flow # None
    /\ options_flow.step = "add_menu"
    /\ \E effective_date \in EffectiveDates, csv \in FlowCsvInputs :
          LET stored_menus == options_flow._storage.menus
              result == parse_csv_menu(csv)
              returned == ~IsBlankText(csv) /\ ~result.raised
              _new_menu_data == IF returned THEN result.menu_data ELSE options_flow._new_menu_data
              _new_total_weeks == IF returned THEN result.total_weeks ELSE options_flow._new_total_weeks
              errors == IF IsBlankText(csv) THEN [menu_csv |-> "csv_required"]
                        ELSE IF result.raised \/ ~Truthy(_new_menu_data) THEN [menu_csv |-> "invalid_csv"]
                        ELSE EmptyDict
              new_menus == Append(stored_menus,
                                  [menu_id |-> MenuIds[Len(stored_menus) + 1],
                                   info |-> [menu_name |-> "Menu " \o ToString(Len(stored_menus) + 1),
                                             effective_date |-> effective_date,
                                             menu_data |-> _new_menu_data,
                                             total_weeks |-> _new_total_weeks]])
          IN  IF errors = EmptyDict
              THEN /\ store' = [options_flow._storage EXCEPT !.menus = new_menus]
                   /\ options_flow' = None
              ELSE /\ options_flow' = [options_flow EXCEPT !._new_menu_data = _new_menu_data,
                                                           !._new_total_weeks = _new_total_weeks,
                                                           !.errors = errors]
                   /\ UNCHANGED store
    /\ UNCHANGED <<config_flow, csv_content, parse_result>>
    /\ UNCHANGED other_options_flow
    /\ UNCHANGED coordinator_vars

FlowNext ==
    \/ async_step_user
    \/ async_step_upload
    \/ async_step_init_form
    \/ async_step_init
    \/ async_step_edit_menu
    \/ async_step_edit_menu_details
    \/ async_step_add_menu

FlowSpec == FlowInit /\ [][FlowNext]_vars

(***************************************************************************)
(* Reference definitions the properties are stated with.  They say what a  *)
(* result is, without the loops and the arithmetic of the code.            *)
(***************************************************************************)
\* the day plans of the last refresh
Plans ==
    IF data = None THEN {}
    ELSE {data.today} \cup (IF data.next # None THEN {data.next} ELSE {})

\* days since the Monday the window starts on, modulo the week: 0 = Monday .. 6 = Sunday
DayIndex(d) == (d - FromIsoFormat(WindowStart)) % 7

IsWeekend(d) == DayIndex(d) \in {5, 6}

\* the Monday of the calendar week of d
MondayOfWeek(d) == CHOOSE m \in (d - 6)..d : DayIndex(m) = 0

\* the loaded menus with an effective date on or before d
MenusInForce(d) == {i \in 1..Len(menus) : menus[i].effective_date <= d}

\* the anchor of d: the latest restart dated on or before d, else the base start
Anchor(d) ==
    LET past == {r \in DOMAIN restarts : r <= d}
    IN  IF past = {} THEN [date |-> start_date, week |-> start_week]
        ELSE LET latest == CHOOSE r \in past : \A q \in past : q <= r
             IN  [date |-> latest, week |-> restarts[latest]]

\* the signed number of 7-day periods from the Monday of a's week to the Monday of d's week
WeeksBetween(a, d) ==
    LET from == MondayOfWeek(a)
        to == MondayOfWeek(d)
    IN  CHOOSE k \in (0 - WindowWeeks - 8)..(WindowWeeks + 8) : to = from + 7 * k

\* the remainder r of a modulo n with 0 <= r < n: a - r is a multiple of n
FloorMod(a, n) == CHOOSE r \in 0..(n - 1) : (a - r) % n = 0

\* the rotation week of d in a cycle of n weeks
RotationFormula(d, n) ==
    LET anchor == Anchor(d)
    IN  FloorMod(anchor.week - 1 + WeeksBetween(anchor.date, d), n) + 1

(***************************************************************************)
(* C1                                                                      *)
(***************************************************************************)
\* C1: the week of every day plan of a date that a menu governs lies in
\* 1..total_weeks of that menu, whatever the anchor and however early the date.
C1_WeekInRange ==
    \A plan \in Plans :
        LET menu == _get_menu_for_date(Self, plan.date)
        IN  (menu # None /\ menu.total_weeks >= 1) => plan.week \in 1..menu.total_weeks

\* a governed date in a week before the base anchor's, where week - 1 + weeks_diff is
\* negative, and a governed date whose anchor week exceeds the cycle length
C1_Witness ==
    /\ data # None
    /\ MenusInForce(data.today.date) # {}
    /\ Anchor(data.today.date).week - 1 + WeeksBetween(Anchor(data.today.date).date, data.today.date) < 0
    /\ data.next # None
    /\ MenusInForce(data.next.date) # {}
    /\ Anchor(data.next.date).week > _get_menu_for_date(Self, data.next.date).total_weeks

(***************************************************************************)
(* C2                                                                      *)
(***************************************************************************)
\* C2: for a governed date the week of the day plan is
\* ((anchor_week - 1 + weeks_diff) floor-mod total_weeks) + 1, the anchor being the
\* latest restart on or before the date (else the base start) and weeks_diff the
\* signed number of weeks between the Mondays of the two calendar weeks.
C2_WeekFormula ==
    \A plan \in Plans :
        LET menu == _get_menu_for_date(Self, plan.date)
        IN  menu # None => plan.week = RotationFormula(plan.date, menu.total_weeks)

\* a governed date after a restart that is neither a Monday nor in the anchor's week,
\* with a second restart still to come
C2_Witness ==
    /\ data # None
    /\ MenusInForce(data.today.date) # {}
    /\ \E r \in DOMAIN restarts : r <= data.today.date /\ DayIndex(r) > DayIndex(data.today.date)
    /\ \E r \in DOMAIN restarts : r > data.today.date
    /\ WeeksBetween(Anchor(data.today.date).date, data.today.date) > 0

(***************************************************************************)
(* C3                                                                      *)
(***************************************************************************)
\* the restart maps the coordinator can hold
LoadedRestarts == {LoadRestarts(rs) : rs \in RestartDicts}

\* C3: the week of today's plan is the week under every other restart map that agrees
\* with the loaded one on the dates up to today, and, once a restart is dated on or
\* before today, under every other base start date and week.
C3_WeekIgnoresInapplicable ==
    data # None =>
        LET d == data.today.date
        IN  /\ \A other \in LoadedRestarts :
                  (\A r \in (DOMAIN other \cup DOMAIN restarts) :
                       r <= d => (r \in DOMAIN other /\ r \in DOMAIN restarts /\ other[r] = restarts[r]))
                  => _get_current_week([Self EXCEPT !.restarts = other], d) = data.today.week
            /\ (\E r \in DOMAIN restarts : r <= d) =>
                  \A sd \in StartDates, sw \in Weeks :
                      _get_current_week([Self EXCEPT !.start_date = FromIsoFormat(sd), !.start_week = sw], d)
                          = data.today.week

\* today is governed and lies between the two restarts: the later restart does not
\* apply yet and the base start no longer applies
C3_Witness ==
    /\ data # None
    /\ MenusInForce(data.today.date) # {}
    /\ \E r \in DOMAIN restarts : r <= data.today.date
    /\ \E r \in DOMAIN restarts : r > data.today.date /\ restarts[r] # Anchor(data.today.date).week
    /\ start_week # Anchor(data.today.date).week

(***************************************************************************)
(* C4                                                                      *)
(***************************************************************************)
\* C4: when today and the date total_weeks * 7 days later are governed by menus of the
\* same total_weeks and no restart is dated after today and on or before the later
\* date, both dates have the same week.
C4_Periodicity ==
    data # None =>
        LET d == data.today.date
            menu == _get_menu_for_date(Self, d)
        IN  menu # None =>
                LET later == d + menu.total_weeks * 7
                    later_menu == _get_menu_for_date(Self, later)
                IN  (/\ later_menu # None
                     /\ later_menu.total_weeks = menu.total_weeks
                     /\ ~\E r \in DOMAIN restarts : d < r /\ r <= later)
                    => _get_current_week(Self, later) = data.today.week

\* a cycle of at least two weeks, an earlier restart in force on both dates, and another
\* menu of the same length taking over in between
C4_Witness ==
    /\ data # None
    /\ MenusInForce(data.today.date) # {}
    /\ LET d == data.today.date
           menu == _get_menu_for_date(Self, d)
           later == d + menu.total_weeks * 7
       IN  /\ menu.total_weeks >= 2
           /\ MenusInForce(later) # MenusInForce(d)
           /\ _get_menu_for_date(Self, later).total_weeks = menu.total_weeks
           /\ \E r \in DOMAIN restarts : r <= d
           /\ ~\E r \in DOMAIN restarts : d < r /\ r <= later

(***************************************************************************)
(* C5                                                                      *)
(***************************************************************************)
\* C5: a day plan is closed exactly when its date is a Saturday or a Sunday or lies in a
\* loaded closure period, both bounds included; every Saturday and Sunday is closed.
C5_ClosedIff ==
    \A plan \in Plans :
        /\ plan.is_closed <=>
              \/ IsWeekend(plan.date)
              \/ \E i \in 1..Len(closure_periods) :
                    closure_periods[i].start <= plan.date /\ plan.date <= closure_periods[i].end
        /\ IsWeekend(plan.date) => plan.is_closed

\* today is a school day that is the last day of a closure period of several days, and
\* a stored period with an invalid date was not loaded
C5_Witness ==
    /\ data # None
    /\ data.today.is_closed
    /\ ~IsWeekend(data.today.date)
    /\ \E i \in 1..Len(closure_periods) :
          closure_periods[i].end = data.today.date /\ closure_periods[i].start < data.today.date
    /\ Len(closure_periods) < Len(storage_data.closure_periods)

(***************************************************************************)
(* C6                                                                      *)
(***************************************************************************)
\* the only closure period stored and loaded is [2024-12-23, 2024-12-27]
OnlyChristmasClosure ==
    /\ storage_data # EmptyDict
    /\ storage_data.closure_periods = <<ChristmasClosure>>
    /\ closure_periods = <<[start |-> FromIsoFormat(<<2024, 12, 23>>), end |-> FromIsoFormat(<<2024, 12, 27>>)]>>

\* C6 as stated: with that single closure period, 2024-12-23 and 2024-12-27 are closed
\* and 2024-12-22 and 2024-12-28 are not.
C6_BoundaryDatesAsStated ==
    (OnlyChristmasClosure /\ data # None) =>
        /\ data.today.date \in {FromIsoFormat(<<2024, 12, 23>>), FromIsoFormat(<<2024, 12, 27>>)}
              => data.today.is_closed
        /\ data.today.date \in {FromIsoFormat(<<2024, 12, 22>>), FromIsoFormat(<<2024, 12, 28>>)}
              => ~data.today.is_closed

\* C6: with that single closure period, 2024-12-23 and 2024-12-27 are closed;
\* 2024-12-22 and 2024-12-28 lie outside the period but are a Sunday and a Saturday and
\* so are closed too; the nearest school days outside the period, 2024-12-20 and
\* 2024-12-30, are not closed.
C6_BoundaryDates ==
    (OnlyChristmasClosure /\ data # None) =>
        /\ data.today.date \in {FromIsoFormat(<<2024, 12, 23>>), FromIsoFormat(<<2024, 12, 27>>)}
              => data.today.is_closed
        /\ data.today.date \in {FromIsoFormat(<<2024, 12, 22>>), FromIsoFormat(<<2024, 12, 28>>)}
              => /\ data.today.is_closed
                 /\ data.today.day_name \in {"Saturday", "Sunday"}
                 /\ IsWeekend(data.today.date)
                 /\ ~ClosurePeriod_contains(closure_periods[1], data.today.date)
        /\ data.today.date \in {FromIsoFormat(<<2024, 12, 20>>), FromIsoFormat(<<2024, 12, 30>>)}
              => ~data.today.is_closed

\* the refresh of 2024-12-28 under the single closure period
C6_Witness ==
    /\ OnlyChristmasClosure
    /\ data # None
    /\ data.today.date = FromIsoFormat(<<2024, 12, 28>>)
    /\ data.today.is_closed

(***************************************************************************)
(* C7                                                                      *)
(***************************************************************************)
\* the effective dates of the stored menus, by position in the document
StoredEffectiveDates ==
    [i \in 1..Len(storage_data.menus) |-> FromIsoFormat(storage_data.menus[i].info.effective_date)]

\* C7: once the menus are loaded from a document whose menus have pairwise distinct
\* effective dates, in whatever order, the menu selected for a date is the stored menu
\* with the greatest effective date on or before it, and None exactly when there is none.
C7_MenuSelection ==
    (/\ start_date # NoDate
     /\ \A i, j \in 1..Len(storage_data.menus) :
           i # j => storage_data.menus[i].info.effective_date # storage_data.menus[j].info.effective_date)
    => LET stored == StoredEffectiveDates
       IN  \A d \in WindowDays :
              LET selected == _get_menu_for_date(Self, d)
                  in_force == {i \in DOMAIN stored : stored[i] <= d}
              IN  IF in_force = {} THEN selected = None
                  ELSE LET g == CHOOSE i \in in_force : \A j \in in_force : stored[j] <= stored[i]
                       IN  selected = MenuInfo_from_config(storage_data.menus[g].menu_id,
                                                           storage_data.menus[g].info)

\* three menus stored latest first, and a refresh on a date the middle one governs
C7_Witness ==
    /\ start_date # NoDate
    /\ Len(storage_data.menus) = 3
    /\ \A i \in 1..2 : StoredEffectiveDates[i] > StoredEffectiveDates[i + 1]
    /\ data # None
    /\ data.today.menu_name = storage_data.menus[2].info.menu_name

(***************************************************************************)
(* C8                                                                      *)
(***************************************************************************)
\* C8: the plan of a date that is a Saturday or a Sunday or lies in a loaded closure
\* period is closed, with the four meals absent and no day attributes, whatever the
\* schedule holds for that day.
C8_ClosedPlanIsEmpty ==
    \A plan \in Plans :
        (\/ IsWeekend(plan.date)
         \/ \E i \in 1..Len(closure_periods) :
               closure_periods[i].start <= plan.date /\ plan.date <= closure_periods[i].end)
        => /\ plan.is_closed
           /\ \A meal_type \in MealTypes : plan[meal_type] = None
           /\ plan.day_attrs = EmptyDict

\* today is a school day inside a closure period and the governing menu holds a record
\* with a main course and day attributes for it
C8_Witness ==
    /\ data # None
    /\ ~IsWeekend(data.today.date)
    /\ data.today.is_closed
    /\ MenusInForce(data.today.date) # {}
    /\ LET record == DayRecord(Self, _get_menu_for_date(Self, data.today.date), data.today.date)
       IN  /\ record # None
           /\ record.main_course # None
           /\ record.day_attrs # EmptyDict

(***************************************************************************)
(* C9                                                                      *)
(***************************************************************************)
\* the record the menu holds for week w and day number n, or None
ScheduledRecord(menu, w, n) ==
    IF ToString(w) \in DOMAIN menu.menu_data /\ ToString(n) \in DOMAIN menu.menu_data[ToString(w)]
    THEN menu.menu_data[ToString(w)][ToString(n)]
    ELSE None

\* a meal of a plan holds exactly the value and the attributes of the stored meal
SameMeal(meal, stored) ==
    IF stored = None THEN meal = None
    ELSE /\ meal # None
         /\ meal.value = stored.value
         /\ (IF meal.attributes = None THEN {} ELSE DOMAIN meal.attributes) = DOMAIN stored \ {"value"}
         /\ \A k \in DOMAIN stored \ {"value"} : meal.attributes[k] = stored[k]

\* C9: the plan of a date that is not closed and that a menu governs holds the meals and
\* the day attributes of the menu's record for the plan's week and the day number
\* (Monday = 1 .. Sunday = 7) of the date; without such a record the meals are absent
\* and the day attributes empty, and the plan is still not closed.
C9_OpenPlanIsRecord ==
    \A plan \in Plans :
        LET menu == _get_menu_for_date(Self, plan.date)
        IN  (~_is_closed(Self, plan.date) /\ menu # None) =>
               LET record == ScheduledRecord(menu, plan.week, DayIndex(plan.date) + 1)
               IN  /\ ~plan.is_closed
                   /\ plan.day_number = DayIndex(plan.date) + 1
                   /\ IF record # None
                      THEN /\ \A meal_type \in MealTypes : SameMeal(plan[meal_type], record[meal_type])
                           /\ plan.day_attrs = record.day_attrs
                      ELSE /\ \A meal_type \in MealTypes : plan[meal_type] = None
                           /\ plan.day_attrs = EmptyDict

\* today's record has a meal with an attribute, a meal without, and an absent meal, and
\* the next service day has no record in its menu
C9_Witness ==
    /\ data # None
    /\ ~data.today.is_closed
    /\ data.today.main_course # None
    /\ data.today.main_course.attributes # None
    /\ data.today.second_course # None
    /\ data.today.second_course.attributes = None
    /\ data.today.side = None
    /\ data.today.day_attrs # EmptyDict
    /\ data.next # None
    /\ MenusInForce(data.next.date) # {}
    /\ ScheduledRecord(_get_menu_for_date(Self, data.next.date), data.next.week, data.next.day_number) = None

(***************************************************************************)
(* C10                                                                     *)
(***************************************************************************)
\* C10 as stated: when no menu governs today, the week of today's plan is the rotation
\* formula over the fallback cycle of 4 weeks that the refresh reports as total_weeks.
C10_FallbackCycleAsStated ==
    (data # None /\ MenusInForce(data.today.date) = {}) =>
        /\ data.total_weeks = DefaultTotalWeeks
        /\ data.today.week = RotationFormula(data.today.date, DefaultTotalWeeks)

\* C10: when no menu governs a date, the week of its plan is 1, whatever the anchor and
\* the date; the refresh reports the fallback total_weeks = 4 when no menu governs today.
C10_NoMenuWeekIsOne ==
    /\ \A plan \in Plans : MenusInForce(plan.date) = {} => plan.week = 1
    /\ (data # None /\ MenusInForce(data.today.date) = {}) => data.total_weeks = DefaultTotalWeeks

\* no menu governs today and the rotation formula over 4 weeks gives another week than 1
C10_Witness ==
    /\ data # None
    /\ MenusInForce(data.today.date) = {}
    /\ RotationFormula(data.today.date, DefaultTotalWeeks) # 1
    /\ data.today.week = 1
    /\ data.total_weeks = DefaultTotalWeeks

(***************************************************************************)
(* C11                                                                     *)
(***************************************************************************)
\* the English name of the day of d
DayNameOf(d) ==
    <<"Monday", "Tuesday", "Wednesday", "Thursday", "Friday", "Saturday", "Sunday">>[DayIndex(d) + 1]

\* d is a Saturday or a Sunday or lies in a loaded closure period
ClosedDay(d) ==
    \/ IsWeekend(d)
    \/ \E i \in 1..Len(closure_periods) : closure_periods[i].start <= d /\ d <= closure_periods[i].end

\* C11: the plan of a date that no menu governs has the menu name "Unknown", the four
\* meals absent and no day attributes; its closed flag, day number and day name are
\* still those of the date and the closure periods.
C11_NoMenuPlan ==
    \A plan \in Plans :
        MenusInForce(plan.date) = {} =>
            /\ plan.menu_name = "Unknown"
            /\ \A meal_type \in MealTypes : plan[meal_type] = None
            /\ plan.day_attrs = EmptyDict
            /\ plan.is_closed <=> ClosedDay(plan.date)
            /\ plan.day_number = DayIndex(plan.date) + 1
            /\ plan.day_name = DayNameOf(plan.date)

\* menus are loaded but none governs today, an open school day, nor the closed day in a
\* closure period before it
C11_Witness ==
    /\ data # None
    /\ Len(menus) > 0
    /\ MenusInForce(data.today.date) = {}
    /\ ~data.today.is_closed
    /\ data.today.menu_name = "Unknown"
    /\ data.today.day_name = "Monday"

(***************************************************************************)
(* C12                                                                     *)
(***************************************************************************)
\* the 30 dates after d
DaysAfter(d) == (d + 1)..(d + 30)

\* C12: the next service day of a refresh is the earliest date after today, at most 30
\* days later, that is not closed; there is none exactly when all those 30 dates are
\* closed; it is never today nor a closed date.
C12_NextValidDate ==
    data # None =>
        LET from_date == data.today.date
        IN  IF \A r \in DaysAfter(from_date) : ClosedDay(r) THEN data.next = None
            ELSE /\ data.next # None
                 /\ data.next.date \in DaysAfter(from_date)
                 /\ ~ClosedDay(data.next.date)
                 /\ \A r \in DaysAfter(from_date) : r < data.next.date => ClosedDay(r)
                 /\ data.next.date # from_date
                 /\ ~data.next.is_closed

\* a closure period ends exactly 30 days after today and nothing is found
C12_Witness ==
    /\ data # None
    /\ data.next = None
    /\ \E i \in 1..Len(closure_periods) : closure_periods[i].end = data.today.date + 30

(***************************************************************************)
(* Reference definitions for the parser: what the header line and a data   *)
(* row of the parsed text say, without the loops of the code.              *)
(***************************************************************************)
\* the call has been made
Parsed == parse_result # None

\* the call returned a (menu_data, total_weeks) pair
Returned == Parsed /\ ~parse_result.raised

\* the column names of the header line, trimmed and lower-cased
ColumnNames == [p \in 1..Len(csv_content[1]) |-> Lower(Strip(csv_content[1][p]))]

\* the leftmost column with the given name
ColumnOf(name) ==
    CHOOSE p \in DOMAIN ColumnNames :
        ColumnNames[p] = name /\ \A q \in DOMAIN ColumnNames : ColumnNames[q] = name => p <= q

\* the required columns the header line lacks
MissingColumns == {AnchorColumns[k] : k \in 1..6} \ {ColumnNames[p] : p \in DOMAIN ColumnNames}

\* the six columns stand left to right in the required order
ColumnsInOrder == \A k \in 1..5 : ColumnOf(AnchorColumns[k]) < ColumnOf(AnchorColumns[k + 1])

\* the trimmed cell of line i in column p, "" when the line does not reach the column
CellAt(i, p) == IF p <= Len(csv_content[i]) THEN Strip(csv_content[i][p]) ELSE ""

\* line i is a data row with some non-blank cell that reaches the fruit column and has
\* an integer week >= 1 and an integer day in 1..7
IsValidRow(i) ==
    /\ \E p \in 1..Len(csv_content[i]) : CellAt(i, p) # ""
    /\ Len(csv_content[i]) >= ColumnOf(CSV_COL_FRUIT)
    /\ \E w \in 1..MaxCellInt : CellAt(i, ColumnOf(CSV_COL_WEEK_NUMBER)) = ToString(w)
    /\ \E d \in 1..7 : CellAt(i, ColumnOf(CSV_COL_WEEK_DAY)) = ToString(d)

\* the data rows accepted into the mapping
AcceptedRows == {i \in 2..Len(csv_content) : IsValidRow(i)}

\* the week and day keys of line i
WeekKey(i) == CellAt(i, ColumnOf(CSV_COL_WEEK_NUMBER))

DayKey(i) == CellAt(i, ColumnOf(CSV_COL_WEEK_DAY))

\* the (week, day) keys of the returned mapping
StoredKeys ==
    UNION {{<<wk, dk>> : dk \in DOMAIN parse_result.menu_data[wk]} : wk \in DOMAIN parse_result.menu_data}

\* the last accepted row with the given (week, day) key
LastRowOf(key) ==
    LET same == {i \in AcceptedRows : <<WeekKey(i), DayKey(i)>> = key}
    IN  CHOOSE i \in same : \A j \in same : j <= i

\* the columns first..last in which line i has a non-empty cell
FilledColumns(i, first, last) == {p \in first..last : CellAt(i, p) # ""}

\* attrs holds exactly the non-empty cells of line i in the columns first..last, each
\* under the name of its column
HoldsCells(attrs, i, first, last) ==
    /\ DOMAIN attrs = {ColumnNames[p] : p \in FilledColumns(i, first, last)}
    /\ \A p \in FilledColumns(i, first, last) : attrs[ColumnNames[p]] = CellAt(i, p)

\* the last attribute column of the k-th required column
SegmentEnd(k) == IF k = 6 THEN Len(ColumnNames) ELSE ColumnOf(AnchorColumns[k + 1]) - 1

(***************************************************************************)
(* C13                                                                     *)
(***************************************************************************)
\* C13: parsing raises an error and returns nothing when the trimmed, lower-cased
\* header line lacks one of the six required columns, the error naming a missing column,
\* and when it has all six but not left to right in the required order.
C13_HeaderRejected ==
    (Parsed /\ csv_content # <<>>) =>
        /\ MissingColumns # {} =>
              /\ parse_result.raised
              /\ parse_result.message = "Missing required column"
              /\ parse_result.column \in MissingColumns
        /\ (MissingColumns = {} /\ ~ColumnsInOrder) => parse_result.raised

\* a header line with the six columns out of order, over a row that would be accepted
C13_Witness ==
    /\ Parsed
    /\ Len(csv_content) > 1
    /\ MissingColumns = {}
    /\ ~ColumnsInOrder
    /\ AcceptedRows # {}
    /\ parse_result.raised
    /\ parse_result.message = "Columns must be in order"

(***************************************************************************)
(* C15                                                                     *)
(***************************************************************************)
\* C15: the returned total_weeks is the greatest week number among the rows accepted
\* into the mapping, and 1 when no row was accepted.
C15_TotalWeeksOfAcceptedRows ==
    Returned =>
        parse_result.total_weeks =
            IF AcceptedRows = {} THEN 1
            ELSE LET weeks == {IntOf(WeekKey(i)) : i \in AcceptedRows}
                 IN  CHOOSE w \in weeks : \A v \in weeks : v <= w

(***************************************************************************)
(* C16                                                                     *)
(***************************************************************************)
\* C16: under a good header line no data row aborts the parse: a blank row, a row that
\* ends before the fruit column, a week that is no integer >= 1 and a day that is no
\* integer in 1..7 add no record, and every other row is stored under its week and day.
C16_RowProblemsSkipped ==
    (Parsed /\ csv_content # <<>> /\ MissingColumns = {} /\ ColumnsInOrder) =>
        /\ ~parse_result.raised
        /\ StoredKeys = {<<WeekKey(i), DayKey(i)>> : i \in AcceptedRows}

\* an accepted row followed by a row with a good week and a bad day
C16_Witness ==
    /\ Returned
    /\ Len(csv_content) = 3
    /\ IsValidRow(2)
    /\ ~IsValidRow(3)
    /\ IsInt(WeekKey(3))
    /\ IntOf(WeekKey(3)) >= 1
    /\ StoredKeys = {<<WeekKey(2), DayKey(2)>>}

(***************************************************************************)
(* C17                                                                     *)
(***************************************************************************)
\* C17: the day attributes of a stored record are exactly the non-empty cells of the
\* columns between week_day and main_course, and the attributes of each meal present
\* exactly the non-empty cells of the columns after its own column and up to the next
\* required column (the end of the header line for fruit), each under its column's name.
C17_AttributesOfSegments ==
    Returned =>
        \A key \in StoredKeys :
            LET i == LastRowOf(key)
                record == parse_result.menu_data[key[1]][key[2]]
            IN  /\ HoldsCells(record.day_attrs, i, ColumnOf(CSV_COL_WEEK_DAY) + 1,
                              ColumnOf(CSV_COL_MAIN_COURSE) - 1)
                /\ \A k \in 3..6 :
                      LET meal == record[AnchorColumns[k]]
                      IN  meal # None =>
                             HoldsCells(Restrict(meal, DOMAIN meal \ {"value"}), i,
                                        ColumnOf(AnchorColumns[k]) + 1, SegmentEnd(k))

(***************************************************************************)
(* C18                                                                     *)
(***************************************************************************)
\* C18: a meal of a stored record is null exactly when the cell of its column is empty
\* after trimming and otherwise has that trimmed cell as its value; the MealData built
\* from it, and the dict MealData.to_dict gives back, have a non-empty value.
C18_MealValueIsCell ==
    Returned =>
        \A key \in StoredKeys :
            LET i == LastRowOf(key)
                record == parse_result.menu_data[key[1]][key[2]]
            IN  \A k \in 3..6 :
                   LET stored == record[AnchorColumns[k]]
                       cell == CellAt(i, ColumnOf(AnchorColumns[k]))
                       meal == MealData_from_dict(stored)
                   IN  /\ stored = None <=> cell = ""
                       /\ stored # None => stored.value = cell
                       /\ meal # None =>
                             /\ meal.value \notin {"", NoneStr}
                             /\ MealData_to_dict(meal) # None
                             /\ MealData_to_dict(meal).value # ""

(***************************************************************************)
(* C19                                                                     *)
(***************************************************************************)
\* C19: several accepted rows with the same week and day raise no error, and the record
\* stored for them is the one the last of these rows gives when it is the only data row.
C19_LastRowWins ==
    (Parsed /\ csv_content # <<>> /\ MissingColumns = {} /\ ColumnsInOrder) =>
        /\ ~parse_result.raised
        /\ \A key \in StoredKeys :
              LET alone == parse_csv_menu(<<csv_content[1], csv_content[LastRowOf(key)]>>)
              IN  parse_result.menu_data[key[1]][key[2]] = alone.menu_data[key[1]][key[2]]

\* two accepted rows for the same week and day that give different records
C19_Witness ==
    /\ Returned
    /\ Len(csv_content) = 3
    /\ AcceptedRows = {2, 3}
    /\ <<WeekKey(2), DayKey(2)>> = <<WeekKey(3), DayKey(3)>>
    /\ LET first == parse_csv_menu(<<csv_content[1], csv_content[2]>>)
       IN  first.menu_data[WeekKey(2)][DayKey(2)] # parse_result.menu_data[WeekKey(2)][DayKey(2)]

(***************************************************************************)
(* C20                                                                     *)
(***************************************************************************)
\* C20: a returned result has total_weeks >= 1, every week key the decimal of an
\* integer in 1..total_weeks and every day key the decimal of an integer in 1..7.
C20_KeysInRange ==
    Returned =>
        /\ parse_result.total_weeks >= 1
        /\ \A key \in StoredKeys :
              /\ \E w \in 1..parse_result.total_weeks : key[1] = ToString(w)
              /\ \E d \in 1..7 : key[2] = ToString(d)

\* a record under the last week and day 7, after a row of a later week was skipped
C20_Witness ==
    /\ Returned
    /\ <<"2", "7">> \in StoredKeys
    /\ parse_result.total_weeks = 3
    /\ \E i \in 2..Len(csv_content) : ~IsValidRow(i) /\ WeekKey(i) = "3"

(***************************************************************************)
(* C14                                                                     *)
(***************************************************************************)
\* C14: whatever was submitted to the upload step of the setup and to the add-menu and
\* edit-menu-details steps, every menu of the persisted document has a weeks mapping
\* that is not empty.
C14_PersistedMenusNotEmpty ==
    store # EmptyDict =>
        \A i \in 1..Len(store.menus) : store.menus[i].info.menu_data # EmptyDict

(***************************************************************************)
(* C21                                                                     *)
(***************************************************************************)
\* C21: after the setup and any add-menu and edit-menu-details steps, the menus of the
\* persisted document have pairwise distinct effective dates.
C21_DistinctEffectiveDates ==
    store # EmptyDict =>
        \A i, j \in 1..Len(store.menus) :
            i # j => store.menus[i].info.effective_date # store.menus[j].info.effective_date

(***************************************************************************)
(* C25                                                                     *)
(***************************************************************************)
\* C25: whatever was submitted to the user and upload steps before, the step that
\* creates the entry saves a start week that is at most the number of weeks of the
\* initial menu.
C25_StartWeekWithinCycle ==
    [][(config_flow # None /\ config_flow' = None)
         => store'.start_week <= store'.menus[1].info.total_weeks]_vars

(***************************************************************************)
(* C23                                                                     *)
(***************************************************************************)
\* C23: a refresh of the loaded coordinator leaves the start date, the start week, the
\* menus with their menu data, the closure periods, the restarts and the storage
\* document as they were; a refresh for the same day as the previous one returns the
\* same data, and a refresh for the day the previous one gave as next gives the same plan.
C23_ResolutionLeavesConfiguration ==
    [][start_date # NoDate =>
          /\ UNCHANGED <<store, storage_data, start_date, start_week, menus, closure_periods, restarts>>
          /\ (data # None /\ data'.today.date = data.today.date) => data' = data
          /\ (data # None /\ data.next # None /\ data'.today.date = data.next.date)
                => data'.today = data.next]_vars

\* a refreshed coordinator that still holds what the document gives, the document having
\* two menus, a closure period and a restart, and the next day being resolved
C23_Witness ==
    /\ data # None
    /\ data.next # None
    /\ storage_data = store
    /\ start_date = FromIsoFormat(store.start_date)
    /\ start_week = store.start_week
    /\ menus = _load_menus(store)
    /\ Len(menus) = 2
    /\ closure_periods = LoadClosurePeriods(store.closure_periods)
    /\ closure_periods # <<>>
    /\ restarts = LoadRestarts(store.restarts)
    /\ DOMAIN restarts # {}
    /\ data.today.date > FromIsoFormat(WindowStart)

(***************************************************************************)
(* sensor.py: the day sensors and the meal sensors of "today" and "next".   *)
(* A sensor reads the data of the last refresh (coordinator.data); a string *)
(* that may be None is NoneStr when it is None.                             *)
(***************************************************************************)
\* the month and the day of the n-th day of year y, searched from month m on
RECURSIVE MonthAndDay(_, _, _)
MonthAndDay(y, n, m) ==
    IF n <= DaysInMonth(y, m) THEN <<m, n>>
    ELSE MonthAndDay(y, n - DaysInMonth(y, m), m + 1)

\* date.isoformat(), from the ordinal of the date
IsoFormat(d) ==
    LET guess == ((d * 400) \div 146097) + 1
        y == IF DaysBeforeYear(guess) >= d THEN guess - 1
             ELSE IF DaysBeforeYear(guess + 1) < d THEN guess + 1
             ELSE guess
        month_day == MonthAndDay(y, d - DaysBeforeYear(y), 1)
    IN  <<y, month_day[1], month_day[2]>>

\* dict.update: the keys of b replace those of a
DictUpdate(a, b) == [k \in DOMAIN a \cup DOMAIN b |-> IF k \in DOMAIN b THEN b[k] ELSE a[k]]

_get_today_data(coordinator_data) ==
    IF coordinator_data # None THEN coordinator_data.today ELSE None

_get_next_data(coordinator_data) ==
    IF coordinator_data # None THEN coordinator_data.next ELSE None

\* a next-day sensor that is available as soon as the coordinator has data
DaySensor_available_with_data(coordinator_data, time_ref) ==
    IF time_ref = "today"
    THEN LET today == _get_today_data(coordinator_data)
         IN  today # None /\ ~today.is_closed
    ELSE coordinator_data # None

\* SchoolCanteenMenuDaySensor.available
DaySensor_available(coordinator_data, time_ref) ==
    IF time_ref = "today"
    THEN LET today == _get_today_data(coordinator_data)
         IN  today # None /\ ~today.is_closed
    ELSE _get_next_data(coordinator_data) # None

\* SchoolCanteenMenuDaySensor.native_value
DaySensor_native_value(coordinator_data, time_ref) ==
    IF time_ref = "today"
    THEN LET today == _get_today_data(coordinator_data)
         IN  IF today # None /\ ~today.is_closed THEN today.day_name ELSE NoneStr
    ELSE LET next_day == _get_next_data(coordinator_data)
         IN  IF next_day # None THEN next_day.day_name ELSE NoneStr

\* SchoolCanteenMenuDaySensor.extra_state_attributes
DaySensor_extra_state_attributes(coordinator_data, time_ref) ==
    IF time_ref = "today"
    THEN LET today == _get_today_data(coordinator_data)
         IN  IF today = None THEN EmptyDict
             ELSE LET attrs == [date |-> IsoFormat(today.date),
                                day_number |-> today.day_number,
                                week |-> today.week,
                                is_closed |-> today.is_closed]
                  IN  IF ~today.is_closed
                      THEN DictUpdate(DictUpdate(attrs, [menu_name |-> today.menu_name]), today.day_attrs)
                      ELSE attrs
    ELSE LET next_day == _get_next_data(coordinator_data)
         IN  IF next_day = None THEN EmptyDict
             ELSE DictUpdate([next_date |-> IsoFormat(next_day.date),
                              day_number |-> next_day.day_number,
                              week |-> next_day.week,
                              is_closed |-> FALSE,
                              menu_name |-> next_day.menu_name],
                             next_day.day_attrs)

\* SchoolCanteenMenuMealSensor._get_meal_data
_get_meal_data(coordinator_data, time_ref, meal_type) ==
    LET day_data == IF time_ref = "today" THEN _get_today_data(coordinator_data)
                    ELSE _get_next_data(coordinator_data)
    IN  IF day_data = None THEN None
        ELSE IF day_data.is_closed THEN None
        ELSE day_data[meal_type]

\* SchoolCanteenMenuMealSensor.available
MealSensor_available(coordinator_data, time_ref, meal_type) ==
    IF time_ref = "today"
    THEN LET today == _get_today_data(coordinator_data)
         IN  today # None /\ ~today.is_closed
    ELSE _get_next_data(coordinator_data) # None

\* SchoolCanteenMenuMealSensor.native_value
MealSensor_native_value(coordinator_data, time_ref, meal_type) ==
    LET meal == _get_meal_data(coordinator_data, time_ref, meal_type)
    IN  IF meal = None THEN NoneStr ELSE meal.value

\* the updates of the attributes with the day attributes and the attributes of the meal
MealSensor_updates(coordinator_data, time_ref, meal_type, attrs, day_data) ==
    LET with_day == IF Truthy(day_data.day_attrs) THEN DictUpdate(attrs, day_data.day_attrs) ELSE attrs
        meal == _get_meal_data(coordinator_data, time_ref, meal_type)
    IN  IF meal # None /\ Truthy(meal.attributes) THEN DictUpdate(with_day, meal.attributes)
        ELSE with_day

\* SchoolCanteenMenuMealSensor.extra_state_attributes
MealSensor_extra_state_attributes(coordinator_data, time_ref, meal_type) ==
    IF time_ref = "today"
    THEN LET day_data == _get_today_data(coordinator_data)
         IN  IF day_data = None THEN EmptyDict
             ELSE LET attrs == [date |-> IsoFormat(day_data.date),
                                day |-> day_data.day_name,
                                day_number |-> day_data.day_number,
                                week |-> day_data.week,
                                is_closed |-> day_data.is_closed]
                  IN  IF ~day_data.is_closed
                      THEN MealSensor_updates(coordinator_data, time_ref, meal_type,
                                              DictUpdate(attrs, [menu_name |-> day_data.menu_name]),
                                              day_data)
                      ELSE attrs
    ELSE LET day_data == _get_next_data(coordinator_data)
         IN  IF day_data = None THEN EmptyDict
             ELSE MealSensor_updates(coordinator_data, time_ref, meal_type,
                                     [next_date |-> IsoFormat(day_data.date),
                                      day |-> day_data.day_name,
                                      day_number |-> day_data.day_number,
                                      week |-> day_data.week,
                                      is_closed |-> FALSE,
                                      menu_name |-> day_data.menu_name],
                                     day_data)

WindowMondays == {d \in WindowDays : DayIndex(d) = 0}

\* from the Monday m to the Monday after it the same menus are in force, at least one,
\* and no restart is dated after m
SteadyWeek(m) ==
    /\ MenusInForce(m) # {}
    /\ MenusInForce(m + 7) = MenusInForce(m)
    /\ ~\E r \in DOMAIN restarts : m < r /\ r <= m + 7

\* a coordinator with the base start 2024-09-02, start week 1, one menu of 4 weeks in
\* force from that date, no closure period and no restart
ExampleCoordinator ==
    [start_date |-> FromIsoFormat(<<2024, 9, 2>>),
     start_week |-> 1,
     menus |-> <<MenuInfo_from_config(MenuIds[1], [menu_name |-> "Menu A",
                                                  effective_date |-> <<2024, 9, 2>>,
                                                  menu_data |-> MenuVariant("a", "full", 4),
                                                  total_weeks |-> 4])>>,
     closure_periods |-> <<>>,
     restarts |-> EmptyDict]

\* C30: when today is a Monday whose calendar week has no restart after it and no change
\* of the menus in force, the week of today's plan is the week of all seven dates up to
\* the Sunday, whatever the closure periods, and on the next Monday the week is one
\* more, or 1 after total_weeks; with the base start 2024-09-02, start week 1 and a menu
\* of 4 weeks the week is 1 on 2024-09-02, 2 on 2024-09-09 and 4 on 2024-10-21.
C30_WeekOfCalendarWeek ==
    /\ (data # None /\ data.today.date \in WindowMondays /\ SteadyWeek(data.today.date)) =>
          LET m == data.today.date
              week == data.today.week
          IN  /\ \A k \in 0..6 : _get_current_week(Self, m + k) = week
              /\ _get_current_week(Self, m + 7)
                     = (IF week = _get_menu_for_date(Self, m).total_weeks THEN 1 ELSE week + 1)
    /\ Weekday(FromIsoFormat(<<2024, 9, 2>>)) = 0
    /\ _get_current_week(ExampleCoordinator, FromIsoFormat(<<2024, 9, 2>>)) = 1
    /\ _get_current_week(ExampleCoordinator, FromIsoFormat(<<2024, 9, 9>>)) = 2
    /\ _get_current_week(ExampleCoordinator, FromIsoFormat(<<2024, 10, 21>>)) = 4

\* a refresh on the Monday of a steady week that has days in a closure period, the week
\* being the last of a cycle of at least two weeks, so that the next Monday is in week 1
C30_Witness ==
    /\ data # None
    /\ data.today.date \in WindowMondays
    /\ SteadyWeek(data.today.date)
    /\ \E i \in 1..Len(closure_periods) :
          /\ closure_periods[i].start <= data.today.date + 4
          /\ closure_periods[i].end >= data.today.date
    /\ data.today.week = _get_menu_for_date(Self, data.today.date).total_weeks
    /\ data.today.week >= 2
    /\ _get_current_week(Self, data.today.date + 7) = 1

(***************************************************************************)
(* config_flow.py: the closure and restart steps of the options flow, for   *)
(* two options flows of one entry.  Each flow object has its own            *)
(* SchoolCanteenMenuStorage, loaded once by _get_storage; the DateSelector  *)
(* and NumberSelector of a form admit valid dates and weeks in 1..max_weeks *)
(* only.  A step of a flow yields the flow after it (None once the flow has *)
(* finished or aborted) and the document then on disk.                      *)
(***************************************************************************)
\* the closure periods a document may grow to in the runs
MaxClosures == 2

\* the two options flows
Slots == {1, 2}

FlowOf(slot) == IF slot = 1 THEN options_flow ELSE other_options_flow

\* the document the setup saved: one menu of two weeks, no closure period, no restart
SetupDocument ==
    Document(<<2024, 12, 18>>, 1, <<MenuItem(1, <<2024, 12, 18>>, 2, "full")>>, <<>>, EmptyDict)

\* what is submitted: one single closure date; the closure period around it and the
\* same with its bounds exchanged; one restart date
ClosureDateInputs == {<<2024, 12, 24>>}

ClosurePeriodInputs ==
    {[start |-> <<2024, 12, 23>>, end |-> <<2024, 12, 27>>],
     [start |-> <<2024, 12, 27>>, end |-> <<2024, 12, 23>>]}

RestartDateInputs == {<<2024, 12, 26>>}

\* SchoolCanteenMenuStorage.async_update: the keys are updated in the storage object's
\* own copy of the document and the whole copy is saved
Storage_async_update(_data, updates) == DictUpdate(_data, updates)

\* async_show_form with errors: the flow stays at the step and nothing is saved
ShowForm(flow, errors, document) ==
    [flow |-> [flow EXCEPT !.errors = errors], document |-> document]

\* async_abort: the flow ends and nothing is saved
Abort(flow, document) == [flow |-> None, document |-> document]

\* async_update followed by async_create_entry: the flow ends with its copy saved
UpdateAndCreateEntry(flow, updates) ==
    [flow |-> None, document |-> Storage_async_update(flow._storage, updates)]

\* the comparison of two ISO date strings as strings
IsoStringLeq(a, b) ==
    \/ a[1] < b[1]
    \/ a[1] = b[1] /\ a[2] < b[2]
    \/ a[1] = b[1] /\ a[2] = b[2] /\ a[3] <= b[3]

\* async_step_add_closure_date with user_input; the stored periods are compared with
\* the date only in the handler of the ValueError of date.fromisoformat
add_closure_date(flow, closure_date, document) ==
    LET stored == flow._storage.closure_periods
        errors == IF ~IsValidIso(closure_date)
                  THEN IF \E i \in 1..Len(stored) :
                             IsoStringLeq(stored[i].start, closure_date)
                             /\ IsoStringLeq(closure_date, stored[i].end)
                       THEN [closure_date |-> "closure_date_already_configured"]
                       ELSE [closure_date |-> "invalid_date"]
                  ELSE EmptyDict
    IN  IF errors = EmptyDict
        THEN UpdateAndCreateEntry(flow, [closure_periods |->
                 Append(stored, [start |-> closure_date, end |-> closure_date])])
        ELSE ShowForm(flow, errors, document)

\* async_step_add_closure_period without the comparison of the two dates
add_closure_period_unordered(flow, period_start, period_end, document) ==
    LET stored == flow._storage.closure_periods
        start == FromIsoFormat(period_start)
        end == FromIsoFormat(period_end)
        invalid == (IF IsValidIso(period_start) THEN EmptyDict ELSE [closure_period_start |-> "invalid_date"])
                   @@ (IF IsValidIso(period_end) THEN EmptyDict ELSE [closure_period_end |-> "invalid_date"])
        errors == IF invalid # EmptyDict THEN invalid
                  ELSE IF \E i \in 1..Len(stored) :
                             ~(end < FromIsoFormat(stored[i].start) \/ start > FromIsoFormat(stored[i].end))
                       THEN [base |-> "closure_period_overlapping"]
                       ELSE EmptyDict
    IN  IF errors = EmptyDict
        THEN UpdateAndCreateEntry(flow, [closure_periods |->
                 Append(stored, [start |-> period_start, end |-> period_end])])
        ELSE ShowForm(flow, errors, document)

\* async_step_add_closure_period with user_input
add_closure_period(flow, period_start, period_end, document) ==
    LET stored == flow._storage.closure_periods
        start == FromIsoFormat(period_start)
        end == FromIsoFormat(period_end)
        invalid == (IF IsValidIso(period_start) THEN EmptyDict ELSE [closure_period_start |-> "invalid_date"])
                   @@ (IF IsValidIso(period_end) THEN EmptyDict ELSE [closure_period_end |-> "invalid_date"])
        errors == IF invalid # EmptyDict THEN invalid
                  ELSE IF start > end THEN [closure_period_end |-> "end_before_start"]
                  ELSE IF \E i \in 1..Len(stored) :
                             ~(end < FromIsoFormat(stored[i].start) \/ start > FromIsoFormat(stored[i].end))
                       THEN [base |-> "closure_period_overlapping"]
                       ELSE EmptyDict
    IN  IF errors = EmptyDict
        THEN UpdateAndCreateEntry(flow, [closure_periods |->
                 Append(stored, [start |-> period_start, end |-> period_end])])
        ELSE ShowForm(flow, errors, document)

\* [p for i, p in enumerate(periods) if str(i) not in to_remove], from position i on
RECURSIVE KeepPeriods(_, _, _)
KeepPeriods(periods, to_remove, i) ==
    IF i > Len(periods) THEN <<>>
    ELSE (IF ToString(i - 1) \in to_remove THEN <<>> ELSE <<periods[i]>>)
         \o KeepPeriods(periods, to_remove, i + 1)

\* async_step_delete_closure with user_input
delete_closure(flow, to_remove, document) ==
    LET stored == flow._storage.closure_periods
    IN  IF stored = <<>> THEN Abort(flow, document)
        ELSE IF to_remove # {}
             THEN UpdateAndCreateEntry(flow, [closure_periods |-> KeepPeriods(stored, to_remove, 1)])
             ELSE Abort(flow, document)

\* max(total_weeks of the menus, default=4)
max_weeks(flow) ==
    LET stored_menus == flow._storage.menus
    IN  IF stored_menus = <<>> THEN 4
        ELSE CHOOSE w \in {stored_menus[i].info.total_weeks : i \in 1..Len(stored_menus)} :
                 \A i \in 1..Len(stored_menus) : stored_menus[i].info.total_weeks <= w

\* async_step_add_restart with user_input
add_restart(flow, restart_date, restart_week, document) ==
    LET stored == flow._storage.restarts
        invalid == (IF IsValidIso(restart_date) THEN EmptyDict ELSE [restart_date |-> "invalid_date"])
                   @@ (IF restart_week < 1 \/ restart_week > max_weeks(flow)
                       THEN [restart_week |-> "invalid_week"] ELSE EmptyDict)
        errors == IF invalid # EmptyDict THEN invalid
                  ELSE IF restart_date \in DOMAIN stored
                       THEN [restart_date |-> "restart_date_already_configured"]
                       ELSE EmptyDict
    IN  IF errors = EmptyDict
        THEN UpdateAndCreateEntry(flow, [restarts |-> DictUpdate(stored, restart_date :> restart_week)])
        ELSE ShowForm(flow, errors, document)

\* async_step_delete_restart with user_input
delete_restart(flow, to_remove, document) ==
    LET stored == flow._storage.restarts
    IN  IF DOMAIN stored = {} THEN Abort(flow, document)
        ELSE IF to_remove # {}
             THEN UpdateAndCreateEntry(flow, [restarts |-> Restrict(stored, DOMAIN stored \ to_remove)])
             ELSE Abort(flow, document)

\* the flow and the document after a step of the flow in the slot
StepTo(slot, result) ==
    /\ IF slot = 1
       THEN options_flow' = result.flow /\ UNCHANGED other_options_flow
       ELSE other_options_flow' = result.flow /\ UNCHANGED options_flow
    /\ store' = result.document
    /\ UNCHANGED <<config_flow, csv_content, parse_result>>
    /\ UNCHANGED coordinator_vars

\* an entry set up and no options flow in progress
OptionsInit ==
    /\ store = SetupDocument
    /\ config_flow = None
    /\ options_flow = None
    /\ other_options_flow = None
    /\ csv_content = <<>>
    /\ parse_result = None
    /\ storage_data = EmptyDict
    /\ start_date = NoDate
    /\ start_week = 1
    /\ menus = <<>>
    /\ closure_periods = <<>>
    /\ restarts = EmptyDict
    /\ data = None

\* a new options flow: __init__, and async_step_init without user_input, where
\* _get_storage loads the document into the flow's storage object
OpenOptionsFlow(slot) ==
    /\ FlowOf(slot) = None
    /\ StepTo(slot, [flow |-> [step |-> "init", _storage |-> store, _selected_menu_id |-> NoneStr,
                               _new_menu_data |-> EmptyDict, _new_total_weeks |-> 0,
                               errors |-> EmptyDict],
                     document |-> store])

\* async_step_init with user_input: the chosen step runs without user_input and shows
\* its form, the delete steps aborting when there is nothing to delete
ChooseAction(slot) ==
    /\ FlowOf(slot) # None
    /\ FlowOf(slot).step = "init"
    /\ \E action \in {"add_closure_date", "add_closure_period", "delete_closure",
                      "add_restart", "delete_restart"} :
          /\ action \in {"add_closure_date", "add_closure_period"}
                => Len(FlowOf(slot)._storage.closure_periods) < MaxClosures
          /\ IF \/ action = "delete_closure" /\ FlowOf(slot)._storage.closure_periods = <<>>
                \/ action = "delete_restart" /\ DOMAIN FlowOf(slot)._storage.restarts = {}
             THEN StepTo(slot, Abort(FlowOf(slot), store))
             ELSE StepTo(slot, [flow |-> [FlowOf(slot) EXCEPT !.step = action], document |-> store])

async_step_add_closure_date(slot) ==
    /\ FlowOf(slot) # None
    /\ FlowOf(slot).step = "add_closure_date"
    /\ \E closure_date \in ClosureDateInputs :
          StepTo(slot, add_closure_date(FlowOf(slot), closure_date, store))

async_step_add_closure_period(slot) ==
    /\ FlowOf(slot) # None
    /\ FlowOf(slot).step = "add_closure_period"
    /\ \E period \in ClosurePeriodInputs :
          StepTo(slot, add_closure_period(FlowOf(slot), period.start, period.end, store))

async_step_delete_closure(slot) ==
    /\ FlowOf(slot) # None
    /\ FlowOf(slot).step = "delete_closure"
    /\ \E to_remove \in SUBSET {ToString(i - 1) : i \in 1..Len(FlowOf(slot)._storage.closure_periods)} :
          StepTo(slot, delete_closure(FlowOf(slot), to_remove, store))

async_step_add_restart(slot) ==
    /\ FlowOf(slot) # None
    /\ FlowOf(slot).step = "add_restart"
    /\ \E restart_date \in RestartDateInputs, restart_week \in 1..max_weeks(FlowOf(slot)) :
          StepTo(slot, add_restart(FlowOf(slot), restart_date, restart_week, store))

async_step_delete_restart(slot) ==
    /\ FlowOf(slot) # None
    /\ FlowOf(slot).step = "delete_restart"
    /\ \E to_remove \in SUBSET DOMAIN FlowOf(slot)._storage.restarts :
          StepTo(slot, delete_restart(FlowOf(slot), to_remove, store))

OptionsNext ==
    \E slot \in Slots :
        \/ OpenOptionsFlow(slot)
        \/ ChooseAction(slot)
        \/ async_step_add_closure_date(slot)
        \/ async_step_add_closure_period(slot)
        \/ async_step_delete_closure(slot)
        \/ async_step_add_restart(slot)
        \/ async_step_delete_restart(slot)

OptionsSpec == OptionsInit /\ [][OptionsNext]_vars

(***************************************************************************)
(* C22                                                                     *)
(***************************************************************************)
\* C22: after every step of the options flows, starting from the empty list of the
\* setup, every closure period of the persisted document has two valid dates with
\* start <= end; a step that answers end_before_start leaves the document as it was.
C22_ClosurePeriodsOrdered ==
    [][/\ \A i \in 1..Len(store'.closure_periods) :
             /\ IsValidIso(store'.closure_periods[i].start)
             /\ IsValidIso(store'.closure_periods[i].end)
             /\ FromIsoFormat(store'.closure_periods[i].start)
                    <= FromIsoFormat(store'.closure_periods[i].end)
       /\ \A slot \in Slots :
             (/\ FlowOf(slot)' # None
              /\ FlowOf(slot)' # FlowOf(slot)
              /\ FlowOf(slot)'.errors = [closure_period_end |-> "end_before_start"])
             => store' = store]_vars

\* a period of several days and a single date are stored, and a flow has just been
\* answered end_before_start
C22_Witness ==
    /\ \E i \in 1..Len(store.closure_periods) :
          FromIsoFormat(store.closure_periods[i].start) < FromIsoFormat(store.closure_periods[i].end)
    /\ \E i \in 1..Len(store.closure_periods) :
          store.closure_periods[i].start = store.closure_periods[i].end
    /\ \E slot \in Slots :
          /\ FlowOf(slot) # None
          /\ FlowOf(slot).step = "add_closure_period"
          /\ FlowOf(slot).errors = [closure_period_end |-> "end_before_start"]

(***************************************************************************)
(* C26                                                                     *)
(***************************************************************************)
\* C26: after every step of the options flows no two closure periods of the persisted
\* document have a date in common.
C26_ClosurePeriodsDisjoint ==
    \A i, j \in 1..Len(store.closure_periods) :
        i # j =>
            \/ FromIsoFormat(store.closure_periods[i].end) < FromIsoFormat(store.closure_periods[j].start)
            \/ FromIsoFormat(store.closure_periods[j].end) < FromIsoFormat(store.closure_periods[i].start)

(***************************************************************************)
(* C27                                                                     *)
(***************************************************************************)
\* C27: when an options flow completes an add step, every closure period and every
\* restart that the persisted document held before the step, among them what another
\* flow has saved since this flow loaded the document, is in the document after it.
C27_NoLostEdit ==
    [][\A slot \in Slots :
          (/\ FlowOf(slot) # None
           /\ FlowOf(slot).step \in {"add_closure_date", "add_closure_period", "add_restart"}
           /\ FlowOf(slot)' = None)
          => /\ \A i \in 1..Len(store.closure_periods) :
                   \E j \in 1..Len(store'.closure_periods) :
                       store'.closure_periods[j] = store.closure_periods[i]
             /\ \A r \in DOMAIN store.restarts :
                   r \in DOMAIN store'.restarts /\ store'.restarts[r] = store.restarts[r]]_vars

(***************************************************************************)
(* C28                                                                     *)
(***************************************************************************)
\* the top-level key of the document that a step edits
EditedKey(step) ==
    CASE step \in {"add_closure_date", "add_closure_period", "delete_closure"} -> "closure_periods"
      [] step \in {"add_restart", "delete_restart"} -> "restarts"
      [] OTHER -> "menus"

\* C28: a step of an options flow changes the persisted document only when it ends the
\* flow, and then at most under the one top-level key that the step edits; a step that
\* shows its form again with an error changes nothing.
C28_OnlyEditedKeyChanges ==
    [][\A slot \in Slots :
          FlowOf(slot)' # FlowOf(slot) =>
              /\ DOMAIN store' = DOMAIN store
              /\ FlowOf(slot)' # None => store' = store
              /\ \A key \in DOMAIN store :
                    store'[key] # store[key] => key = EditedKey(FlowOf(slot).step)]_vars

(***************************************************************************)
(* __init__.py: the entry with its coordinator beside an options flow.  A   *)
(* flow that finishes reloads the entry (OptionsFlowWithReload), and an     *)
(* entry can be reloaded at any time: the platforms are unloaded and        *)
(* async_setup_entry builds a new storage object and a new coordinator.     *)
(***************************************************************************)
\* async_unload_entry, and the constructor of the coordinator of the next setup
async_unload_entry ==
    /\ start_date # NoDate
    /\ storage_data' = EmptyDict
    /\ start_date' = NoDate
    /\ start_week' = 1
    /\ menus' = <<>>
    /\ closure_periods' = <<>>
    /\ restarts' = EmptyDict
    /\ data' = None
    /\ UNCHANGED store
    /\ UNCHANGED flow_vars

EntryNext ==
    \/ async_setup
    \/ _async_update_data
    \/ async_unload_entry
    \/ OpenOptionsFlow(1)
    \/ ChooseAction(1)
    \/ async_step_add_closure_date(1)
    \/ async_step_add_closure_period(1)
    \/ async_step_delete_closure(1)
    \/ async_step_add_restart(1)
    \/ async_step_delete_restart(1)

EntrySpec == OptionsInit /\ [][EntryNext]_vars

(***************************************************************************)
(* C24                                                                     *)
(***************************************************************************)
\* the coordinator that async_setup builds from one document
CoordinatorOf(document) ==
    [start_date |-> FromIsoFormat(document.start_date),
     start_week |-> document.start_week,
     menus |-> _load_menus(document),
     closure_periods |-> LoadClosurePeriods(document.closure_periods),
     restarts |-> LoadRestarts(document.restarts)]

\* C24: in every interleaving of setups, reloads, refreshes and steps of an options
\* flow, a coordinator takes its document from the disk in one step together with its
\* base anchor, menus, closure periods and restarts, which are all those of that
\* document, and a refresh computes its two plans from that document's values, which it
\* leaves as they are, whatever the document on disk has become.
C24_OneVersionPerRefresh ==
    [][/\ (storage_data' # storage_data /\ start_date' # NoDate)
             => storage_data' = store /\ Self' = CoordinatorOf(store)
       /\ Self' # Self => storage_data' # storage_data
       /\ (data' # data /\ data' # None)
             => /\ UNCHANGED <<storage_data, start_date, start_week, menus, closure_periods, restarts>>
                /\ Self = CoordinatorOf(storage_data)
                /\ data' = CoordinatorData(Self, data'.today.date)]_vars

\* a refreshed coordinator while the document on disk has another closure period and
\* another restart than the one it loaded, which would give another plan for today
C24_Witness ==
    /\ start_date # NoDate
    /\ data # None
    /\ store.closure_periods # storage_data.closure_periods
    /\ store.restarts # storage_data.restarts
    /\ storage_data.closure_periods # <<>>
    /\ CoordinatorData(CoordinatorOf(store), data.today.date).today # data.today

====
